---- MODULE Spec2Model ----
(***************************************************************************)
(* Model of the ACE adaptation engine of OpenCE-Reimpl (appworld_experiment):*)
(* the Playbook store (appworld_playbook.py), the delta operations applied  *)
(* to it (appworld_delta.py) and the per-task interaction loop of the       *)
(* adapter (appworld_adaptation.py).                                        *)
(*                                                                         *)
(* Python strings that the code takes apart (section names, tip ids) are    *)
(* sequences of one-character strings, so that split(), lower() and the     *)
(* "{prefix}-{counter:05d}" format are computed as the code computes them.  *)
(* Python's None is the value None below: a sequence whose only element is  *)
(* not a character, hence different from every string of the model.         *)
(***************************************************************************)
EXTENDS Integers, Sequences, FiniteSets, TLC

VARIABLES
    tips,        \* Playbook._tips: tip id -> Tip
    sections,    \* Playbook._sections: section -> list of tip ids
    next_id,     \* Playbook._next_id
    last,        \* the last Playbook call: its name, whether its tip_id was a
                 \* key of _tips when it was called, and the exception it raised
    phase,       \* "train": _process_sample; "test", "baseline":
                 \* _evaluation_sample
    max_interaction_steps,   \* AppWorldAdapterBase.max_interaction_steps
    task_id,     \* sample.task_id
    pc,          \* the call the adapter is about to make, or how it ended
    interaction_step,        \* the loop variable of the interaction loop
    execution_status,        \* the local execution_status
    generator_output,        \* the local generator_output
    final_generator_output,  \* the local final_generator_output
    trajectory,  \* Trajectory: [steps, execution_status]
    metrics,     \* unit_test_output, unit_tests_passed, unit_tests_total and tgc in a list, empty
                 \* before the report is parsed
    sgc_cnt,     \* AppWorldAdapterBase.sgc_cnt: scenario id -> count
    result,      \* the AdapterStepResult returned, in a list that is empty before
    log,         \* the calls made on the roles and the environment, in order,
                 \* each with its outcome
    given,       \* the playbook one Playbook call finds and the arguments it is
                 \* made with (SpecCall)
    mode,        \* "offline": AppWorldOfflineAdapter.run, "online":
                 \* AppWorldOnlineAdapter.run
    epochs,      \* the argument epochs (1 in an online run)
    train_samples,           \* len(train_samples); len(samples) in an online run
    test_samples,            \* len(test_samples)
    deduplicator,            \* whether self.deduplicator is set
    dedup_frequency,         \* self.dedup_frequency
    has_bullet_id,           \* whether the operations of
                             \* result.curator_output.delta have the attribute
                             \* bullet_id that run reads
    epoch_idx,   \* the loop variable epoch_idx
    step_idx,    \* the loop variable step_idx
    sample_counter,          \* train_sample_counter / sample_counter
    bullet_ids_buffer,       \* the local bullet_ids_buffer
    added_since_flush,       \* the ids under which an ADD operation has stored a
                             \* tip since the buffer was last empty
    run_pc,      \* the statement run is about to execute, or how it ended
    run_log,     \* the _process_sample and _evaluation_sample calls that
                 \* returned, in order
    role,        \* the role whose method is running: "generator" (generate),
                 \* "reflector" (reflect), "curator" (curate)
    max_retries, \* self.max_retries
    max_refinement_rounds,   \* the argument max_refinement_rounds of reflect
    round_idx,   \* the loop variable round_idx of reflect
    attempt,     \* the loop variable attempt
    prompt,      \* the local prompt: the base prompt, or the base prompt with
                 \* the corrective instruction appended
    reflect_result,          \* the local result of reflect, in a list that is
                             \* empty while result is None
    completions, \* the self.llm.complete calls made, in order, each with the
                 \* prompt it was given and what came of its response
    role_pc,     \* the statement the method is about to execute, or how it
                 \* ended
    returned     \* what the method returned, in a list that is empty before

pbvars == <<tips, sections, next_id, last>>

loopvars ==
    <<phase, max_interaction_steps, task_id, pc, interaction_step,
      execution_status, generator_output, final_generator_output, trajectory,
      metrics, sgc_cnt, result, log>>

\* What neither the playbook calls nor the per-task flow write
runvars ==
    <<mode, epochs, train_samples, test_samples, deduplicator, dedup_frequency,
      has_bullet_id, epoch_idx, step_idx, sample_counter, bullet_ids_buffer,
      added_since_flush, run_pc, run_log>>

rolevars ==
    <<role, max_retries, max_refinement_rounds, round_idx, attempt, prompt,
      reflect_result, completions, role_pc, returned>>

auxvars == <<given, runvars, rolevars>>

vars == <<pbvars, loopvars, auxvars>>

----------------------------------------------------------------------------
(* Bounds of the model *)

MaxNextId == 2
MaxTips == 2
MaxBatch == 2
MaxSteps == 3
MaxEpochs == 2
MaxTrain == 2
MaxTest == 2
MaxFrequency == 2
MaxRetries == 2
MaxRounds == 2

----------------------------------------------------------------------------
(* Python values *)

None == <<"None">>

Truthy(v) == v # None /\ v # <<>>

SecApi == <<"A", " ", "b">>
SecEmpty == <<>>

Sections == {SecApi, SecEmpty}

Contents == {<<>>, <<"x">>}

IdA1 == <<"a", "-", "0", "0", "0", "0", "1">>
IdT == <<"t">>

CallerIds == {IdA1, IdT}

\* Tag lists a caller passes to add_tip, and to update_tip and tag_tip
AddTagLists == {<<"p", "p">>}
TagLists == {<<"q", "p">>}

----------------------------------------------------------------------------
(* str.lower, str.split and the "{:05d}" format *)

LowerChar(c) ==
    CASE c = "A" -> "a"
      [] c = "D" -> "d"
      [] c = "I" -> "i"
      [] c = "P" -> "p"
      [] c = "U" -> "u"
      [] OTHER -> c

UpperChar(c) ==
    CASE c = "a" -> "A"
      [] c = "d" -> "D"
      [] OTHER -> c

upper(s) == [i \in 1..Len(s) |-> UpperChar(s[i])]

lower(s) == [i \in 1..Len(s) |-> LowerChar(s[i])]

IsSpace(c) == c \in {" ", "\t", "\n"}

RECURSIVE lstrip(_)
lstrip(s) ==
    IF s = <<>> THEN <<>>
    ELSE IF IsSpace(Head(s)) THEN lstrip(Tail(s)) ELSE s

RECURSIVE first_word(_)
first_word(s) ==
    IF s = <<>> \/ IsSpace(Head(s)) THEN <<>>
    ELSE <<Head(s)>> \o first_word(Tail(s))

\* section.split(): the list of whitespace-separated words; only its emptiness
\* and its first element are read.
split_is_empty(s) == lstrip(s) = <<>>
split_0(s) == first_word(lstrip(s))

Digit(d) ==
    CASE d = 0 -> "0" [] d = 1 -> "1" [] d = 2 -> "2" [] d = 3 -> "3"
      [] d = 4 -> "4" [] d = 5 -> "5" [] d = 6 -> "6" [] d = 7 -> "7"
      [] d = 8 -> "8" [] d = 9 -> "9"

RECURSIVE decimal(_)
decimal(n) ==
    IF n < 10 THEN <<Digit(n)>> ELSE decimal(n \div 10) \o <<Digit(n % 10)>>

RECURSIVE zero_pad(_, _)
zero_pad(s, width) ==
    IF Len(s) >= width THEN s ELSE zero_pad(<<"0">> \o s, width)

format_05d(n) == zero_pad(decimal(n), 5)

----------------------------------------------------------------------------
(* Playbook: the operations as functions of the playbook value               *)
(* pb = [tips, sections, next_id]; each returns the playbook it leaves and   *)
(* the exception it raised ("none" when it returned).                        *)

\* A Tip without created_at and updated_at: both are wall-clock readings that
\* no operation below reads back.
Tip(id, section, content, scenario_tags) ==
    [id |-> id, section |-> section, content |-> content,
     scenario_tags |-> scenario_tags]

EmptyPlaybook == [tips |-> <<>>, sections |-> <<>>, next_id |-> 0]

Ret(pb) == [pb |-> pb, exc |-> "none"]
Raise(pb, e) == [pb |-> pb, exc |-> e]

InSeq(x, s) == \E i \in 1..Len(s) : s[i] = x

\* dict[key] = value
DictSet(d, k, v) == [x \in (DOMAIN d) \cup {k} |-> IF x = k THEN v ELSE d[x]]
\* del dict[key]
DictDel(d, k) == [x \in (DOMAIN d) \ {k} |-> d[x]]

RECURSIVE apply_tags(_, _)
apply_tags(scenario_tags, tags) ==
    IF tags = <<>> THEN scenario_tags
    ELSE IF InSeq(Head(tags), scenario_tags)
         THEN apply_tags(scenario_tags, Tail(tags))
         ELSE apply_tags(Append(scenario_tags, Head(tags)), Tail(tags))

\* Returns [pb, id, exc]; the counter is incremented before split()[0] can
\* raise IndexError on a section without a word.
\* _generate_id that formats the next counter value without storing it
generate_id_without_storing(pb, section) ==
    IF split_is_empty(section)
    THEN [pb |-> pb, id |-> None, exc |-> "IndexError"]
    ELSE [pb |-> pb,
          id |-> lower(split_0(section)) \o <<"-">> \o format_05d(pb.next_id + 1),
          exc |-> "none"]

generate_id(pb, section) ==
    LET pb1 == [pb EXCEPT !.next_id = pb.next_id + 1] IN
    IF split_is_empty(section)
    THEN [pb |-> pb1, id |-> None, exc |-> "IndexError"]
    ELSE [pb |-> pb1,
          id |-> lower(split_0(section)) \o <<"-">> \o format_05d(pb1.next_id),
          exc |-> "none"]

add_tip(pb, section, content, tip_id, scenario_tags) ==
    LET g == IF tip_id # None /\ tip_id \notin DOMAIN pb.tips
             THEN [pb |-> pb, id |-> tip_id, exc |-> "none"]
             ELSE generate_id(pb, section)
        tags == IF Truthy(scenario_tags) THEN scenario_tags ELSE <<>>
        old == IF section \in DOMAIN g.pb.sections
               THEN g.pb.sections[section] ELSE <<>>
    IN  IF g.exc # "none" THEN Raise(g.pb, g.exc)
        ELSE Ret([g.pb EXCEPT
                 !.tips = DictSet(g.pb.tips, g.id, Tip(g.id, section, content, tags)),
                 !.sections = DictSet(g.pb.sections, section, Append(old, g.id))])

\* update_tip with `if content:` for `if content is not None:`
update_tip_unless_content_is_empty(pb, tip_id, content, scenario_tags) ==
    IF tip_id \notin DOMAIN pb.tips THEN Ret(pb)
    ELSE LET tip == pb.tips[tip_id]
             t1 == IF Truthy(content) THEN [tip EXCEPT !.content = content] ELSE tip
             t2 == IF scenario_tags # None
                   THEN [t1 EXCEPT !.scenario_tags = apply_tags(t1.scenario_tags, scenario_tags)]
                   ELSE t1
         IN  Ret([pb EXCEPT !.tips = DictSet(pb.tips, tip_id, t2)])

update_tip(pb, tip_id, content, scenario_tags) ==
    IF tip_id \notin DOMAIN pb.tips THEN Ret(pb)
    ELSE LET tip == pb.tips[tip_id]
             t1 == IF content # None THEN [tip EXCEPT !.content = content] ELSE tip
             t2 == IF scenario_tags # None
                   THEN [t1 EXCEPT !.scenario_tags = apply_tags(t1.scenario_tags, scenario_tags)]
                   ELSE t1
         IN  Ret([pb EXCEPT !.tips = DictSet(pb.tips, tip_id, t2)])

\* tags = None makes apply_tags iterate None: TypeError
tag_tip(pb, tip_id, tags) ==
    IF tip_id \notin DOMAIN pb.tips THEN Ret(pb)
    ELSE IF tags = None THEN Raise(pb, "TypeError")
    ELSE LET tip == pb.tips[tip_id] IN
         Ret([pb EXCEPT !.tips = DictSet(pb.tips, tip_id,
                  [tip EXCEPT !.scenario_tags = apply_tags(tip.scenario_tags, tags)])])

\* remove_tip with `self._tips.pop(tip_id)` for `self._tips.pop(tip_id, None)`
remove_tip_pop_without_default(pb, tip_id) ==
    IF tip_id \notin DOMAIN pb.tips THEN Raise(pb, "KeyError")
    ELSE Ret([pb EXCEPT !.tips = DictDel(pb.tips, tip_id)])

\* remove_tip without `del self._sections[tip.section]`
remove_tip_keeping_emptied_section(pb, tip_id) ==
    IF tip_id \notin DOMAIN pb.tips THEN Ret(pb)
    ELSE LET tip == pb.tips[tip_id]
             tips1 == DictDel(pb.tips, tip_id)
             section_list == IF tip.section \in DOMAIN pb.sections
                             THEN pb.sections[tip.section] ELSE <<>>
             kept == SelectSeq(section_list, LAMBDA id : id # tip_id)
         IN  IF section_list = <<>> THEN Ret([pb EXCEPT !.tips = tips1])
             ELSE Ret([pb EXCEPT !.tips = tips1,
                                 !.sections = DictSet(pb.sections, tip.section, kept)])

remove_tip(pb, tip_id) ==
    IF tip_id \notin DOMAIN pb.tips THEN Ret(pb)
    ELSE LET tip == pb.tips[tip_id]
             tips1 == DictDel(pb.tips, tip_id)
             section_list == IF tip.section \in DOMAIN pb.sections
                             THEN pb.sections[tip.section] ELSE <<>>
             kept == SelectSeq(section_list, LAMBDA id : id # tip_id)
         IN  IF section_list = <<>> THEN Ret([pb EXCEPT !.tips = tips1])
             ELSE IF kept = <<>>
                  THEN Ret([pb EXCEPT !.tips = tips1,
                                      !.sections = DictDel(pb.sections, tip.section)])
                  ELSE Ret([pb EXCEPT !.tips = tips1,
                                      !.sections = DictSet(pb.sections, tip.section, kept)])

----------------------------------------------------------------------------
(* Delta operations (appworld_delta.py) and their application *)

\* A key that the curator's JSON object does not have
Absent == <<"Absent">>

TypeADD == <<"A", "D", "D">>
TypeUPDATE == <<"U", "P", "D", "A", "T", "E">>
TypeTAG == <<"T", "A", "G">>
TypeREMOVE == <<"R", "E", "M", "O", "V", "E">>

Payload(type, section, content, tip_id, scenario_tags) ==
    [type |-> type, section |-> section, content |-> content,
     tip_id |-> tip_id, scenario_tags |-> scenario_tags]

\* str(value) of a JSON string or null
str(v) == IF v = None THEN <<"N", "o", "n", "e">> ELSE v

\* payload.get(key, default)
get(v, default) == IF v = Absent THEN default ELSE v

\* `x and str(x)`: a falsy x (None, "") is returned as it is
and_str(v) == IF Truthy(v) THEN str(v) ELSE v

DeltaOperation_from_json(payload) ==
    [type |-> str(payload.type),
     section |-> str(get(payload.section, <<>>)),
     content |-> and_str(get(payload.content, None)),
     tip_id |-> and_str(get(payload.tip_id, None)),
     scenario_tags |-> get(payload.scenario_tags, <<>>)]

apply_operation(pb, operation) ==
    LET op_type == upper(operation.type) IN
    CASE op_type = TypeADD ->
            add_tip(pb, operation.section,
                    IF Truthy(operation.content) THEN operation.content ELSE <<>>,
                    operation.tip_id, operation.scenario_tags)
      [] op_type = TypeUPDATE ->
            IF operation.tip_id = None THEN Ret(pb)
            ELSE update_tip(pb, operation.tip_id, operation.content,
                            operation.scenario_tags)
      [] op_type = TypeTAG ->
            IF operation.tip_id = None THEN Ret(pb)
            ELSE tag_tip(pb, operation.tip_id, operation.scenario_tags)
      [] op_type = TypeREMOVE ->
            IF operation.tip_id = None THEN Ret(pb)
            ELSE remove_tip(pb, operation.tip_id)
      [] OTHER -> Ret(pb)

\* The for loop of apply_delta: an exception of one operation ends the loop
\* and leaves what the operations before it (and the failing one) wrote.
RECURSIVE apply_delta(_, _)
apply_delta(pb, operations) ==
    IF operations = <<>> THEN Ret(pb)
    ELSE LET r == apply_operation(pb, Head(operations)) IN
         IF r.exc # "none" THEN r ELSE apply_delta(r.pb, Tail(operations))

----------------------------------------------------------------------------
(* Deduplication (appworld_deduplication.py, Playbook.deduplicate) *)

RECURSIVE SetToSeq(_)
SetToSeq(S) ==
    IF S = {} THEN <<>>
    ELSE LET x == CHOOSE y \in S : TRUE IN <<x>> \o SetToSeq(S \ {x})

\* new_bullets, existing_bullets: id -> content.  similar is the outcome of the
\* similarity test on two contents (cosine similarity of the embeddings above
\* the threshold, or the substring fallback): a set of content pairs.
find_duplicates_of_existing(new_bullets, existing_bullets, similar) ==
    IF DOMAIN new_bullets = {} \/ DOMAIN existing_bullets = {} THEN <<>>
    ELSE SetToSeq({e \in DOMAIN existing_bullets :
                     \E n \in DOMAIN new_bullets :
                        <<new_bullets[n], existing_bullets[e]>> \in similar})

\* find_duplicates comparing each new bullet with every other bullet, new or
\* existing
find_duplicates_among_all(new_bullets, existing_bullets, similar) ==
    IF DOMAIN new_bullets = {} THEN <<>>
    ELSE SetToSeq({n \in DOMAIN new_bullets :
                     \/ \E e \in DOMAIN existing_bullets :
                           <<new_bullets[n], existing_bullets[e]>> \in similar
                     \/ \E o \in (DOMAIN new_bullets) \ {n} :
                           <<new_bullets[n], new_bullets[o]>> \in similar})

find_duplicates(new_bullets, existing_bullets, similar) ==
    IF DOMAIN new_bullets = {} \/ DOMAIN existing_bullets = {} THEN <<>>
    ELSE SetToSeq({n \in DOMAIN new_bullets :
                     \E e \in DOMAIN existing_bullets :
                        <<new_bullets[n], existing_bullets[e]>> \in similar})

RECURSIVE remove_all(_, _)
remove_all(pb, ids) ==
    IF ids = <<>> THEN pb ELSE remove_all(remove_tip(pb, Head(ids)).pb, Tail(ids))

\* Returns [pb, exc, removed]
deduplicate(pb, tip_ids, similar) ==
    LET new_tips == [id \in {x \in tip_ids : x \in DOMAIN pb.tips} |-> pb.tips[id].content]
        existing_tips == [id \in (DOMAIN pb.tips) \ (DOMAIN new_tips) |-> pb.tips[id].content]
        duplicate_ids == find_duplicates(new_tips, existing_tips, similar)
    IN  [pb |-> remove_all(pb, duplicate_ids), exc |-> "none", removed |-> duplicate_ids]

----------------------------------------------------------------------------
(* Serialization: to_dict and dumps, loads and from_dict *)

\* A JSON document, as json.dumps writes it and json.loads reads it: an object
\* is the list of its members in the order written, each <<key, value>>
JObject(members) == [json |-> "object", members |-> members]
JArray(elements) == [json |-> "array", elements |-> elements]
JString(chars) == [json |-> "string", chars |-> chars]
JNumber(n) == [json |-> "number", n |-> n]

\* asdict(tip), written out (created_at and updated_at are written and read
\* back the way content is)
asdict(tip) ==
    JObject(<< <<"id", JString(tip.id)>>,
               <<"section", JString(tip.section)>>,
               <<"content", JString(tip.content)>>,
               <<"scenario_tags",
                 JArray([i \in 1..Len(tip.scenario_tags) |->
                           JString(tip.scenario_tags[i])])>> >>)

\* json.dumps(self.to_dict(), ...)
dumps(pb) ==
    LET tip_ids == SetToSeq(DOMAIN pb.tips)
        section_keys == SetToSeq(DOMAIN pb.sections)
    IN  JObject(<<
          <<"tips", JObject([i \in 1..Len(tip_ids) |->
                               <<tip_ids[i], asdict(pb.tips[tip_ids[i]])>>])>>,
          <<"sections",
            JObject([i \in 1..Len(section_keys) |->
                       <<section_keys[i],
                         JArray([k \in 1..Len(pb.sections[section_keys[i]]) |->
                                   JString(pb.sections[section_keys[i]][k])])>>])>>,
          <<"next_id", JNumber(pb.next_id)>> >>)

\* payload.get(key, default) of a JSON object
member(object, key, default) ==
    IF \E i \in 1..Len(object.members) : object.members[i][1] = key
    THEN object.members[CHOOSE i \in 1..Len(object.members) :
                           object.members[i][1] = key][2]
    ELSE default

\* Tip(**tip_value)
Tip_of(tip_value) ==
    LET scenario_tags == member(tip_value, "scenario_tags", JArray(<<>>)) IN
    Tip(member(tip_value, "id", JString(<<>>)).chars,
        member(tip_value, "section", JString(<<>>)).chars,
        member(tip_value, "content", JString(<<>>)).chars,
        [i \in 1..Len(scenario_tags.elements) |-> scenario_tags.elements[i].chars])

\* instance._tips of from_dict: the members of "tips" that are objects
RECURSIVE tips_of(_)
tips_of(members) ==
    IF members = <<>> THEN <<>>
    ELSE LET n == Len(members)
             earlier == tips_of(SubSeq(members, 1, n - 1))
         IN  IF members[n][2].json = "object"
             THEN DictSet(earlier, members[n][1], Tip_of(members[n][2]))
             ELSE earlier

\* instance._sections of from_dict: list(ids) of an array, [] of a number
RECURSIVE sections_of(_)
sections_of(members) ==
    IF members = <<>> THEN <<>>
    ELSE LET n == Len(members)
             ids == members[n][2]
         IN  DictSet(sections_of(SubSeq(members, 1, n - 1)), members[n][1],
                     IF ids.json = "array"
                     THEN [k \in 1..Len(ids.elements) |-> ids.elements[k].chars]
                     ELSE <<>>)

\* from_dict with `instance._next_id` left as the constructor set it
from_dict_with_new_counter(payload) ==
    LET tips_payload == member(payload, "tips", JObject(<<>>))
        sections_payload == member(payload, "sections", JObject(<<>>))
    IN  [tips |-> IF tips_payload.json = "object"
                  THEN tips_of(tips_payload.members) ELSE <<>>,
         sections |-> IF sections_payload.json = "object"
                      THEN sections_of(sections_payload.members) ELSE <<>>,
         next_id |-> 0]

from_dict(payload) ==
    LET tips_payload == member(payload, "tips", JObject(<<>>))
        sections_payload == member(payload, "sections", JObject(<<>>))
    IN  [tips |-> IF tips_payload.json = "object"
                  THEN tips_of(tips_payload.members) ELSE <<>>,
         sections |-> IF sections_payload.json = "object"
                      THEN sections_of(sections_payload.members) ELSE <<>>,
         next_id |-> member(payload, "next_id", JNumber(0)).n]

\* Playbook.loads(data): [pb, exc], with the playbook left as it is when the
\* document is not an object
Playbook_loads(pb, data) ==
    IF data.json # "object" THEN Raise(pb, "ValueError")
    ELSE Ret(from_dict(data))

----------------------------------------------------------------------------
(* The playbook as a state machine: one action per public call *)

PB == [tips |-> tips, sections |-> sections, next_id |-> next_id]

Called(op, tip_id, r) ==
    /\ tips' = r.pb.tips
    /\ sections' = r.pb.sections
    /\ next_id' = r.pb.next_id
    /\ last' = [op |-> op, hit |-> tip_id \in DOMAIN tips, exc |-> r.exc]

Bounded(r) ==
    r.pb.next_id <= MaxNextId /\ Cardinality(DOMAIN r.pb.tips) <= MaxTips

PlaybookInit ==
    /\ tips = EmptyPlaybook.tips
    /\ sections = EmptyPlaybook.sections
    /\ next_id = EmptyPlaybook.next_id
    /\ last = [op |-> "__init__", hit |-> FALSE, exc |-> "none"]

AddTipCall ==
    /\ \E section \in Sections, content \in Contents,
          tip_id \in CallerIds \cup {None}, scenario_tags \in AddTagLists \cup {None} :
          LET r == add_tip(PB, section, content, tip_id, scenario_tags) IN
          Bounded(r) /\ Called("add_tip", tip_id, r)
    /\ UNCHANGED <<loopvars, auxvars>>

UpdateTipCall ==
    /\ \E tip_id \in DOMAIN tips \cup CallerIds,
          content \in Contents \cup {None}, scenario_tags \in TagLists \cup {None} :
          Called("update_tip", tip_id, update_tip(PB, tip_id, content, scenario_tags))
    /\ UNCHANGED <<loopvars, auxvars>>

TagTipCall ==
    /\ \E tip_id \in DOMAIN tips \cup CallerIds, tags \in TagLists :
          Called("tag_tip", tip_id, tag_tip(PB, tip_id, tags))
    /\ UNCHANGED <<loopvars, auxvars>>

RemoveTipCall ==
    /\ \E tip_id \in DOMAIN tips \cup CallerIds :
          Called("remove_tip", tip_id, remove_tip(PB, tip_id))
    /\ UNCHANGED <<loopvars, auxvars>>

\* Operations as a curator response carries them
CuratorPayloads ==
    { Payload(TypeADD, SecApi, <<"x">>, Absent, Absent),
      Payload(TypeADD, Absent, Absent, None, Absent),
      Payload(<<"a", "d", "d">>, SecEmpty, <<>>, IdA1, <<"p", "p">>),
      Payload(TypeUPDATE, Absent, <<"x">>, IdA1, <<"q", "p">>),
      Payload(TypeTAG, Absent, Absent, IdT, <<"q", "p">>),
      Payload(TypeTAG, Absent, Absent, IdA1, None),
      Payload(TypeREMOVE, Absent, Absent, IdA1, Absent),
      Payload(<<"M", "E", "R", "G", "E">>, SecApi, <<"x">>, Absent, Absent) }

RECURSIVE SeqsUpTo(_, _)
SeqsUpTo(S, n) ==
    IF n = 0 THEN {<<>>}
    ELSE LET shorter == SeqsUpTo(S, n - 1) IN
         shorter \cup {Append(q, x) : q \in shorter, x \in S}

DeltaBatch_from_json(ops_payload) ==
    [i \in 1..Len(ops_payload) |-> DeltaOperation_from_json(ops_payload[i])]

\* The batches apply_delta is called with: DeltaBatch.from_json of a curator
\* response with at most MaxBatch operations
DeltaBatches ==
    {DeltaBatch_from_json(ops_payload) : ops_payload \in SeqsUpTo(CuratorPayloads, MaxBatch)}

ApplyDeltaCall ==
    /\ \E operations \in DeltaBatches :
          LET r == apply_delta(PB, operations) IN
          Bounded(r) /\ Called("apply_delta", None, r)
    /\ UNCHANGED <<loopvars, auxvars>>

\* Outcomes of the similarity test: no two contents are similar, equal
\* contents are, all contents are.
SimilarityOutcomes ==
    { {}, {<<c, c>> : c \in Contents}, Contents \X Contents }

DeduplicateCall ==
    /\ \E tip_ids \in SUBSET (DOMAIN tips \cup CallerIds), similar \in SimilarityOutcomes :
          Called("deduplicate", None, deduplicate(PB, tip_ids, similar))
    /\ UNCHANGED <<loopvars, auxvars>>

\* GeneratorOutput: the object the k-th generate call of the task returned;
\* NoOutput is None
GeneratorOutput(k) == [call |-> k]
NoOutput == GeneratorOutput(0)

\* Trajectory(task=sample.question, steps=[])
Trajectory == [steps |-> <<>>, execution_status |-> "unset"]

\* No sample is being processed
AdapterIdle ==
    /\ phase = "train"
    /\ max_interaction_steps = 0
    /\ task_id = None
    /\ pc = "idle"
    /\ interaction_step = 0
    /\ execution_status = "unset"
    /\ generator_output = NoOutput
    /\ final_generator_output = NoOutput
    /\ trajectory = Trajectory
    /\ metrics = <<>>
    /\ sgc_cnt = <<>>
    /\ result = <<>>
    /\ log = <<>>

\* No call with recorded arguments is being made
NothingGiven ==
    [call |-> "none", pb |-> EmptyPlaybook, operations |-> <<>>, tip_ids |-> {},
     similar |-> {}]

\* No run is under way
RunIdle ==
    /\ mode = "online"
    /\ epochs = 0
    /\ train_samples = 0
    /\ test_samples = 0
    /\ deduplicator = FALSE
    /\ dedup_frequency = 0
    /\ has_bullet_id = FALSE
    /\ epoch_idx = 0
    /\ step_idx = 0
    /\ sample_counter = 0
    /\ bullet_ids_buffer = <<>>
    /\ added_since_flush = {}
    /\ run_pc = "idle"
    /\ run_log = <<>>

\* No method of a role is running
RoleIdle ==
    /\ role = "none"
    /\ max_retries = 0
    /\ max_refinement_rounds = 0
    /\ round_idx = 0
    /\ attempt = 0
    /\ prompt = "base_prompt"
    /\ reflect_result = <<>>
    /\ completions = <<>>
    /\ role_pc = "idle"
    /\ returned = <<>>

AuxIdle == given = NothingGiven /\ RunIdle /\ RoleIdle

\* The playbook is written with dumps and replaced by what loads reads back
LoadsDumpsCall ==
    /\ Called("loads", None, Playbook_loads(PB, dumps(PB)))
    /\ UNCHANGED <<loopvars, auxvars>>

Init == PlaybookInit /\ AdapterIdle /\ AuxIdle

Next ==
    \/ AddTipCall
    \/ UpdateTipCall
    \/ TagTipCall
    \/ RemoveTipCall
    \/ ApplyDeltaCall
    \/ DeduplicateCall
    \/ LoadsDumpsCall

Spec == Init /\ [][Next]_vars

----------------------------------------------------------------------------
(* One apply_delta or deduplicate call with its arguments on record: the     *)
(* playbook the call finds and the arguments are drawn at the start, and the *)
(* call is made once.                                                        *)

\* The playbooks that at most n add_tip calls on an empty playbook leave
RECURSIVE PlaybooksUpTo(_)
PlaybooksUpTo(n) ==
    IF n = 0 THEN {EmptyPlaybook}
    ELSE LET fewer == PlaybooksUpTo(n - 1) IN
         fewer \cup { add_tip(pb, SecApi, content, tip_id, None).pb :
                          pb \in fewer, content \in Contents,
                          tip_id \in CallerIds \cup {None} }

Playbooks == PlaybooksUpTo(MaxTips)

GivenInit ==
    /\ \E pb \in Playbooks :
          /\ tips = pb.tips
          /\ sections = pb.sections
          /\ next_id = pb.next_id
          /\ \/ \E operations \in DeltaBatches :
                   given = [call |-> "apply_delta", pb |-> pb,
                            operations |-> operations,
                            tip_ids |-> {}, similar |-> {}]
             \/ \E tip_ids \in SUBSET (DOMAIN pb.tips \cup CallerIds),
                    similar \in SimilarityOutcomes :
                   given = [call |-> "deduplicate", pb |-> pb,
                            operations |-> <<>>,
                            tip_ids |-> tip_ids, similar |-> similar]
    /\ last = [op |-> "__init__", hit |-> FALSE, exc |-> "none"]
    /\ AdapterIdle
    /\ RunIdle
    /\ RoleIdle

ApplyDeltaGiven ==
    /\ given.call = "apply_delta"
    /\ last.op = "__init__"
    /\ Called("apply_delta", None, apply_delta(PB, given.operations))
    /\ UNCHANGED <<loopvars, auxvars>>

DeduplicateGiven ==
    /\ given.call = "deduplicate"
    /\ last.op = "__init__"
    /\ Called("deduplicate", None, deduplicate(PB, given.tip_ids, given.similar))
    /\ UNCHANGED <<loopvars, auxvars>>

CallNext ==
    \/ ApplyDeltaGiven
    \/ DeduplicateGiven

SpecCall == GivenInit /\ [][CallNext]_vars

----------------------------------------------------------------------------
(* The environment's evaluation call and the unit-test report                *)
(* (appworld_environment.py, experiment_logger.py)                           *)

\* A report text is the sequence of its lines; a line that one of the two
\* regular expressions of parse_unit_test_results matches is <<label, number>>.
LinePassed(n) == <<"Num Passed Tests", n>>
LineTotal(n) == <<"Num Total  Tests", n>>

ReportText(passed, total) ==
    << <<"Overall Stats">>, LinePassed(passed),
       <<"Num Failed Tests", total - passed>>, LineTotal(total) >>

EvaluationFailedText == << <<"Evaluation failed after 3 attempts.">> >>
NoUnitTestOutputText == << <<"(no unit test output)">> >>

\* What response.json() of POST /evaluate can be: an object whose "output" is a
\* report text (whole, or cut off after the passed count), null, or missing
EvaluateResponses ==
    { [output |-> ReportText(2, 2)],
      [output |-> ReportText(1, 2)],
      [output |-> << <<"Overall Stats">>, LinePassed(1) >>],
      [output |-> None],
      [output |-> Absent] }

\* The request (or response.json()) raised
RequestFails == [output |-> <<"raise">>]

EvaluateAttempts == 3

\* attempts[i] is what the i-th request would yield.  Returns the result and
\* the number of requests made.
RECURSIVE evaluate_task_from(_, _)
evaluate_task_from(attempts, i) ==
    IF i > EvaluateAttempts
    THEN [result |-> [output |-> EvaluationFailedText], requests |-> EvaluateAttempts]
    ELSE IF attempts[i] = RequestFails
         THEN evaluate_task_from(attempts, i + 1)
         ELSE [result |-> attempts[i], requests |-> i]

\* evaluate_task without `return result` in the loop
evaluate_task_without_return(attempts) ==
    [result |-> [output |-> EvaluationFailedText], requests |-> EvaluateAttempts]

evaluate_task(attempts) == evaluate_task_from(attempts, 1)

\* re.search(...): the match on the first line with the label, as the list of
\* its one group; the empty list when no line matches
RECURSIVE search(_, _)
search(label, text) ==
    IF text = <<>> THEN <<>>
    ELSE IF Len(Head(text)) = 2 /\ Head(text)[1] = label THEN <<Head(text)[2]>>
         ELSE search(label, Tail(text))

\* parse_unit_test_results with a total that defaults to 1
parse_unit_test_results_missing_total_is_one(unit_test_output) ==
    IF ~Truthy(unit_test_output) THEN <<0, 1>>
    ELSE LET passed_match == search("Num Passed Tests", unit_test_output)
             total_match == search("Num Total  Tests", unit_test_output)
         IN  << IF passed_match # <<>> THEN passed_match[1] ELSE 0,
                IF total_match # <<>> THEN total_match[1] ELSE 1 >>

parse_unit_test_results(unit_test_output) ==
    IF ~Truthy(unit_test_output) THEN <<0, 0>>
    ELSE LET passed_match == search("Num Passed Tests", unit_test_output)
             total_match == search("Num Total  Tests", unit_test_output)
         IN  << IF passed_match # <<>> THEN passed_match[1] ELSE 0,
                IF total_match # <<>> THEN total_match[1] ELSE 0 >>

\* task_id.split("_")[0]
RECURSIVE split_underscore_0(_)
split_underscore_0(s) ==
    IF s = <<>> \/ Head(s) = "_" THEN <<>>
    ELSE <<Head(s)>> \o split_underscore_0(Tail(s))

----------------------------------------------------------------------------
(* The per-task flow of the adapter: AppWorldAdapterBase._process_sample     *)
(* (phase "train") and _evaluation_sample (phase "test").  An action is one  *)
(* call on a role or on the environment, with the outcome it has, and the    *)
(* code that runs from its return to the next call.                          *)

COMPLETED == "completed"
MAX_STEPS_REACHED == "max_steps_reached"
CRASHED == "crashed"

ExecutionStatus == {COMPLETED, MAX_STEPS_REACHED, CRASHED}

TaskIds == { <<"s", "_", "1">>, <<"s", "_", "2">> }

Logged(call, task, outcome) == log' = Append(log, <<call, task, outcome>>)

\* Trajectory.add_step
add_step(traj, step) == [traj EXCEPT !.steps = Append(traj.steps, step)]

\* The statements after the loop up to the evaluate_task call
leave_loop(status) ==
    /\ execution_status' = status
    /\ trajectory' = [trajectory EXCEPT !.execution_status = status]
    /\ pc' = "evaluate_task"

\* `execution_status = ExecutionStatus.MAX_STEPS_REACHED  # Default status`
default_status_completed == COMPLETED

default_status == MAX_STEPS_REACHED

\* `except Exception`: status CRASHED and break
crashed_reraises ==
    /\ execution_status' = CRASHED
    /\ pc' = "raised"
    /\ UNCHANGED trajectory

crashed_break == leave_loop(CRASHED)

\* `if generator_output is None`: status CRASHED and break
generation_failed_continues ==
    /\ execution_status' = CRASHED
    /\ pc' = "execute_code"
    /\ UNCHANGED trajectory

generation_failed == leave_loop(CRASHED)

\* `if environment.is_task_completed(...)`: status COMPLETED and break
completed_without_break ==
    /\ execution_status' = COMPLETED
    /\ IF interaction_step < max_interaction_steps
       THEN /\ interaction_step' = interaction_step + 1
            /\ pc' = "generate"
            /\ UNCHANGED trajectory
       ELSE /\ trajectory' = [trajectory EXCEPT !.execution_status = COMPLETED]
            /\ pc' = "evaluate_task"
            /\ UNCHANGED interaction_step

completed_break == leave_loop(COMPLETED) /\ UNCHANGED interaction_step

\* `for interaction_step in range(1, self.max_interaction_steps + 1)` with
\* `range(1, self.max_interaction_steps + 2)`
next_round_one_more ==
    IF interaction_step < max_interaction_steps + 1
    THEN /\ interaction_step' = interaction_step + 1
         /\ pc' = "generate"
         /\ UNCHANGED <<execution_status, trajectory>>
    ELSE /\ leave_loop(execution_status)
         /\ UNCHANGED interaction_step

\* The end of a loop round that did not break: the for statement
next_round ==
    IF interaction_step < max_interaction_steps
    THEN /\ interaction_step' = interaction_step + 1
         /\ pc' = "generate"
         /\ UNCHANGED <<execution_status, trajectory>>
    ELSE /\ leave_loop(execution_status)
         /\ UNCHANGED interaction_step

SampleInit ==
    /\ phase \in {"train", "test", "baseline"}
    /\ max_interaction_steps \in 0..MaxSteps
    /\ task_id \in TaskIds
    /\ pc = "initialize_task"
    /\ interaction_step = 0
    /\ execution_status = "unset"
    /\ generator_output = NoOutput
    /\ final_generator_output = NoOutput
    /\ trajectory = Trajectory
    /\ metrics = <<>>
    /\ sgc_cnt = <<>>
    /\ result = <<>>
    /\ log = <<>>

InitializeTask ==
    /\ pc = "initialize_task"
    /\ \E outcome \in {"ok", "raise"} :
          /\ Logged("initialize_task", task_id, outcome)
          /\ IF outcome = "raise"
             THEN /\ pc' = "raised"
                  /\ UNCHANGED <<interaction_step, execution_status, trajectory>>
             ELSE IF max_interaction_steps >= 1
                  THEN /\ pc' = "generate"
                       /\ interaction_step' = 1
                       /\ execution_status' = default_status
                       /\ UNCHANGED trajectory
                  ELSE /\ leave_loop(default_status)
                       /\ UNCHANGED interaction_step
    /\ UNCHANGED <<phase, max_interaction_steps, task_id, generator_output,
                   final_generator_output, metrics, sgc_cnt, result, pbvars>>
    /\ UNCHANGED auxvars

Generate ==
    /\ pc = "generate"
    /\ \E outcome \in {"output", "None", "raise"} :
          /\ Logged("generate", None, outcome)
          /\ IF outcome = "output"
             THEN /\ generator_output' = GeneratorOutput(interaction_step)
                  /\ pc' = "execute_code"
                  /\ UNCHANGED <<execution_status, trajectory>>
             ELSE IF outcome = "None"
                  THEN generator_output' = NoOutput /\ generation_failed
                  ELSE UNCHANGED generator_output /\ crashed_break
    /\ UNCHANGED <<phase, max_interaction_steps, task_id, interaction_step,
                   final_generator_output, metrics, sgc_cnt, result, pbvars>>
    /\ UNCHANGED auxvars

ExecuteCode ==
    /\ pc = "execute_code"
    /\ \E outcome \in {"ok", "raise"} :
          /\ Logged("execute_code", task_id, outcome)
          /\ IF outcome = "ok"
             THEN /\ trajectory' = add_step(trajectory,
                        [generator_output |-> generator_output,
                         observation |-> interaction_step])
                  /\ pc' = "is_task_completed"
                  /\ UNCHANGED execution_status
             ELSE crashed_break
    /\ UNCHANGED <<phase, max_interaction_steps, task_id, interaction_step,
                   generator_output, final_generator_output, metrics, sgc_cnt,
                   result, pbvars>>
    /\ UNCHANGED auxvars

IsTaskCompleted ==
    /\ pc = "is_task_completed"
    /\ \E outcome \in {"True", "False", "raise"} :
          /\ Logged("is_task_completed", task_id, outcome)
          /\ CASE outcome = "True" ->
                    /\ final_generator_output' = generator_output
                    /\ completed_break
               [] outcome = "False" ->
                    /\ final_generator_output' = generator_output
                    /\ next_round
               [] outcome = "raise" ->
                    /\ crashed_break
                    /\ UNCHANGED <<final_generator_output, interaction_step>>
    /\ UNCHANGED <<phase, max_interaction_steps, task_id, generator_output,
                   metrics, sgc_cnt, result, pbvars>>
    /\ UNCHANGED auxvars

\* `tgc = 1.0 if unit_tests_passed == unit_tests_total else 0.0`, 1.0 and 0.0
\* written 1 and 0
tgc_needs_a_test(unit_tests_passed, unit_tests_total) ==
    IF unit_tests_passed = unit_tests_total /\ unit_tests_total > 0 THEN 1 ELSE 0

tgc(unit_tests_passed, unit_tests_total) ==
    IF unit_tests_passed = unit_tests_total THEN 1 ELSE 0

\* evaluate_task and the statements up to the close_task call, each request
\* yielding one of the responses or failing
EvaluateTaskWith(responses) ==
    /\ pc = "evaluate_task"
    /\ \E attempts \in [1..EvaluateAttempts -> responses \cup {RequestFails}] :
          LET unit_test_result == evaluate_task(attempts).result
              unit_test_output == get(unit_test_result.output, NoUnitTestOutputText)
              parsed == parse_unit_test_results(unit_test_output)
              score == tgc(parsed[1], parsed[2])
              scenario_id == split_underscore_0(task_id)
              count == IF scenario_id \in DOMAIN sgc_cnt THEN sgc_cnt[scenario_id] ELSE 0
          IN  /\ Logged("evaluate_task", task_id, "ok")
              /\ metrics' = << [unit_test_output |-> unit_test_output,
                                unit_tests_passed |-> parsed[1],
                                unit_tests_total |-> parsed[2], tgc |-> score] >>
              /\ sgc_cnt' = DictSet(sgc_cnt, scenario_id,
                                    count + (IF score = 1 THEN 1 ELSE 0))
    /\ pc' = "close_task"
    /\ UNCHANGED <<phase, max_interaction_steps, task_id, interaction_step,
                   execution_status, generator_output, final_generator_output,
                   trajectory, result, pbvars>>
    /\ UNCHANGED auxvars

EvaluateTask == EvaluateTaskWith(EvaluateResponses)

\* curator_output is curator_output.delta.operations: those of the curator in
\* _process_sample, none in the dummy output of _evaluation_sample
AdapterStepResult ==
    [generator_output |-> final_generator_output,
     execution_status |-> execution_status,
     num_steps |-> Len(trajectory.steps),
     tgc |-> metrics[1].tgc,
     curator_output |-> <<>>]

\* Whether the sample is processed by _process_sample, which goes on to
\* reflection and curation, or by _evaluation_sample, which returns
learning_branch_always == TRUE

learning_branch_if_completed == phase = "train" /\ execution_status = COMPLETED

learning_branch == phase = "train"

\* environment.close_task(sample.task_id)
close_task_of_no_task(outcome) == Logged("close_task", None, outcome)

close_task(outcome) == Logged("close_task", task_id, outcome)

CloseTask ==
    /\ pc = "close_task"
    /\ \E outcome \in {"ok", "raise"} :
          /\ close_task(outcome)
          /\ IF outcome = "raise"
             THEN pc' = "raised" /\ UNCHANGED result
             ELSE IF learning_branch
                  THEN pc' = "reflect" /\ UNCHANGED result
                  ELSE pc' = "returned" /\ result' = <<AdapterStepResult>>
    /\ UNCHANGED <<phase, max_interaction_steps, task_id, interaction_step,
                   execution_status, generator_output, final_generator_output,
                   trajectory, metrics, sgc_cnt, pbvars>>
    /\ UNCHANGED auxvars

\* ReflectorOutput.bullet_tags
BulletTagLists == { <<>>, << [id |-> IdA1, tag |-> "q"] >> }

\* AdapterBase._apply_bullet_tags: each tag is put on the tip it names
RECURSIVE apply_bullet_tags(_, _)
apply_bullet_tags(pb, bullet_tags) ==
    IF bullet_tags = <<>> THEN Ret(pb)
    ELSE apply_bullet_tags(
            tag_tip(pb, Head(bullet_tags).id, <<Head(bullet_tags).tag>>).pb,
            Tail(bullet_tags))

Reflect ==
    /\ pc = "reflect"
    /\ \/ /\ Logged("reflect", None, "raise")
          /\ pc' = "raised"
          /\ UNCHANGED pbvars
       \/ \E bullet_tags \in BulletTagLists :
             /\ Logged("reflect", None, "ok")
             /\ Called("_apply_bullet_tags", None, apply_bullet_tags(PB, bullet_tags))
             /\ pc' = "curate"
    /\ UNCHANGED <<phase, max_interaction_steps, task_id, interaction_step,
                   execution_status, generator_output, final_generator_output,
                   trajectory, metrics, sgc_cnt, result>>
    /\ UNCHANGED auxvars

\* curate, then apply_delta on its delta, the curator's delta being one of the
\* batches
CurateWith(batches) ==
    /\ pc = "curate"
    /\ \/ /\ Logged("curate", None, "raise")
          /\ pc' = "raised"
          /\ UNCHANGED <<result, pbvars>>
       \/ \E operations \in batches :
             LET r == apply_delta(PB, operations) IN
             /\ Bounded(r)
             /\ Logged("curate", None, "ok")
             /\ Called("apply_delta", None, r)
             /\ IF r.exc # "none"
                THEN pc' = "raised" /\ UNCHANGED result
                ELSE pc' = "returned" /\ result' =
                          << [AdapterStepResult EXCEPT !.curator_output = operations] >>
    /\ UNCHANGED <<phase, max_interaction_steps, task_id, interaction_step,
                   execution_status, generator_output, final_generator_output,
                   trajectory, metrics, sgc_cnt>>
    /\ UNCHANGED auxvars

Curate == CurateWith(DeltaBatches)

\* The playbook the adapter is constructed with
InitialPlaybooks ==
    { EmptyPlaybook, add_tip(EmptyPlaybook, SecApi, <<"x">>, None, None).pb }

LoopInit ==
    /\ \E pb \in InitialPlaybooks :
          /\ tips = pb.tips
          /\ sections = pb.sections
          /\ next_id = pb.next_id
    /\ last = [op |-> "__init__", hit |-> FALSE, exc |-> "none"]
    /\ SampleInit
    /\ AuxIdle

LoopNext ==
    \/ InitializeTask
    \/ Generate
    \/ ExecuteCode
    \/ IsTaskCompleted
    \/ EvaluateTask
    \/ CloseTask
    \/ Reflect
    \/ Curate

SpecLoop == LoopInit /\ [][LoopNext]_vars

\* A call that has been made returns or raises, and the code goes on
FairSpecLoop == SpecLoop /\ WF_vars(LoopNext)

----------------------------------------------------------------------------
(* The runs: AppWorldOfflineAdapter.run and AppWorldOnlineAdapter.run.  A    *)
(* _process_sample call is one step here, with what it does to the playbook  *)
(* (the reflection's bullet tags, then the curator's delta); the steps       *)
(* inside it are those of SpecLoop.                                          *)

\* result.curator_output.delta.operations of one sample
RunBatches == { operations \in DeltaBatches : Len(operations) <= 1 }

\* op.bullet_id: the id the operation carries
bullet_id(op) == op.tip_id

\* [op.bullet_id for op in ...operations if op.bullet_id]
RECURSIVE new_bullet_ids(_)
new_bullet_ids(operations) ==
    IF operations = <<>> THEN <<>>
    ELSE (IF Truthy(bullet_id(Head(operations)))
          THEN <<bullet_id(Head(operations))>> ELSE <<>>)
         \o new_bullet_ids(Tail(operations))

Range(seq) == { seq[i] : i \in DOMAIN seq }

\* The ids under which the ADD operations of a batch have stored a tip, added
\* to those of before; an id whose tip a later operation removes is dropped
RECURSIVE added_by(_, _, _)
added_by(pb, operations, added) ==
    IF operations = <<>> THEN added
    ELSE LET op == Head(operations)
             r == apply_operation(pb, op)
             stored == { id \in DOMAIN r.pb.tips :
                            id \notin DOMAIN pb.tips \/ r.pb.tips[id] # pb.tips[id] }
         IN  IF r.exc # "none" THEN added
             ELSE added_by(r.pb, Tail(operations),
                           IF upper(op.type) = TypeADD
                           THEN added \cup stored
                           ELSE added \cap DOMAIN r.pb.tips)

RunInit ==
    /\ \E pb \in InitialPlaybooks :
          /\ tips = pb.tips
          /\ sections = pb.sections
          /\ next_id = pb.next_id
    /\ last = [op |-> "__init__", hit |-> FALSE, exc |-> "none"]
    /\ AdapterIdle
    /\ given = NothingGiven
    /\ RoleIdle
    /\ mode \in {"offline", "online"}
    /\ epochs \in IF mode = "offline" THEN 0..MaxEpochs ELSE {1}
    /\ train_samples \in 0..MaxTrain
    /\ test_samples \in IF mode = "offline" THEN 0..MaxTest ELSE {0}
    /\ deduplicator \in BOOLEAN
    /\ dedup_frequency \in 0..MaxFrequency
    /\ has_bullet_id \in BOOLEAN
    /\ epoch_idx = 1
    /\ step_idx = 1
    /\ sample_counter = 0
    /\ bullet_ids_buffer = <<>>
    /\ added_since_flush = {}
    /\ run_pc = IF epochs >= 1 /\ train_samples >= 1
               THEN "train" ELSE "final_deduplicate"
    /\ run_log = <<>>

\* The two for statements of the training phase, the outer one left out
next_sample_one_epoch ==
    IF step_idx < train_samples
    THEN /\ step_idx' = step_idx + 1
         /\ run_pc' = "train"
         /\ UNCHANGED epoch_idx
    ELSE /\ run_pc' = "final_deduplicate"
         /\ UNCHANGED <<epoch_idx, step_idx>>

\* The two for statements of the training phase
next_sample ==
    IF step_idx < train_samples
    THEN /\ step_idx' = step_idx + 1
         /\ run_pc' = "train"
         /\ UNCHANGED epoch_idx
    ELSE IF epoch_idx < epochs
         THEN /\ epoch_idx' = epoch_idx + 1
              /\ step_idx' = 1
              /\ run_pc' = "train"
         ELSE /\ run_pc' = "final_deduplicate"
              /\ UNCHANGED <<epoch_idx, step_idx>>

\* The periodic deduplication test with the remainder test left out
flush_due_whatever_the_count(counter) ==
    deduplicator /\ dedup_frequency > 0

\* The periodic deduplication left to the final one
flush_due_at_the_end_only(counter) == FALSE

\* if self.deduplicator and self.dedup_frequency > 0:
\*     if train_sample_counter % self.dedup_frequency == 0:
flush_due(counter) ==
    /\ deduplicator
    /\ dedup_frequency > 0
    /\ counter % dedup_frequency = 0

\* _process_sample and the statements up to the periodic deduplication test
TrainSample ==
    /\ run_pc = "train"
    /\ \/ /\ run_pc' = "raised"
          /\ UNCHANGED <<pbvars, epoch_idx, step_idx, sample_counter,
                         bullet_ids_buffer, added_since_flush, run_log>>
       \/ \E bullet_tags \in BulletTagLists, operations \in RunBatches :
             LET tagged == apply_bullet_tags(PB, bullet_tags).pb
                 r == apply_delta(tagged, operations)
             IN  /\ Bounded(r)
                 /\ Called("apply_delta", None, r)
                 /\ IF r.exc # "none"
                    THEN /\ run_pc' = "raised"
                         /\ UNCHANGED <<epoch_idx, step_idx, sample_counter,
                                        bullet_ids_buffer, added_since_flush,
                                        run_log>>
                    ELSE /\ run_log' = Append(run_log,
                                   <<"_process_sample", epoch_idx, step_idx>>)
                         /\ IF operations # <<>> /\ ~has_bullet_id
                            THEN /\ run_pc' = "raised"
                                 /\ UNCHANGED <<epoch_idx, step_idx, sample_counter,
                                                bullet_ids_buffer, added_since_flush>>
                            ELSE /\ bullet_ids_buffer' =
                                       bullet_ids_buffer \o new_bullet_ids(operations)
                                 /\ added_since_flush' =
                                       added_by(tagged, operations, added_since_flush)
                                 /\ sample_counter' = sample_counter + 1
                                 /\ IF flush_due(sample_counter + 1)
                                    THEN /\ run_pc' = "deduplicate"
                                         /\ UNCHANGED <<epoch_idx, step_idx>>
                                    ELSE next_sample
    /\ UNCHANGED <<loopvars, given, rolevars, mode, epochs, train_samples, test_samples,
                   deduplicator, dedup_frequency, has_bullet_id>>

\* The periodic deduplication: deduplicate on the buffer, which is then emptied
PeriodicDeduplicate ==
    /\ run_pc = "deduplicate"
    /\ \E similar \in SimilarityOutcomes :
          Called("deduplicate", None,
                 deduplicate(PB, Range(bullet_ids_buffer), similar))
    /\ bullet_ids_buffer' = <<>>
    /\ added_since_flush' = {}
    /\ next_sample
    /\ UNCHANGED <<loopvars, given, rolevars, mode, epochs, train_samples, test_samples,
                   deduplicator, dedup_frequency, has_bullet_id, sample_counter,
                   run_log>>

\* The final deduplication of what is left in the buffer
FinalDeduplicate ==
    /\ run_pc = "final_deduplicate"
    /\ IF deduplicator /\ bullet_ids_buffer # <<>>
       THEN \E similar \in SimilarityOutcomes :
               Called("deduplicate", None,
                      deduplicate(PB, Range(bullet_ids_buffer), similar))
       ELSE UNCHANGED pbvars
    /\ IF mode = "offline" /\ test_samples >= 1
       THEN run_pc' = "test" /\ step_idx' = 1
       ELSE run_pc' = "returned" /\ UNCHANGED step_idx
    /\ UNCHANGED <<loopvars, given, rolevars, mode, epochs, train_samples, test_samples,
                   deduplicator, dedup_frequency, has_bullet_id, epoch_idx,
                   sample_counter, bullet_ids_buffer, added_since_flush, run_log>>

\* _evaluation_sample on the next test sample
TestSample ==
    /\ run_pc = "test"
    /\ \/ run_pc' = "raised" /\ UNCHANGED <<step_idx, run_log>>
       \/ /\ run_log' = Append(run_log, <<"_evaluation_sample", 0, step_idx>>)
          /\ IF step_idx < test_samples
             THEN step_idx' = step_idx + 1 /\ UNCHANGED run_pc
             ELSE run_pc' = "returned" /\ UNCHANGED step_idx
    /\ UNCHANGED <<pbvars, loopvars, given, rolevars, mode, epochs, train_samples,
                   test_samples, deduplicator, dedup_frequency, has_bullet_id,
                   epoch_idx, sample_counter, bullet_ids_buffer,
                   added_since_flush>>

RunNext ==
    \/ TrainSample
    \/ PeriodicDeduplicate
    \/ FinalDeduplicate
    \/ TestSample

SpecRun == RunInit /\ [][RunNext]_vars

----------------------------------------------------------------------------
(* The runs, task by task: the run methods of AppWorldOfflineAdapter,        *)
(* AppWorldOnlineAdapter and AppworldBaselineAdapter with each               *)
(* _process_sample or _evaluation_sample call carried out in the steps of    *)
(* the per-task flow.  log holds the calls of all tasks of the run, in       *)
(* order.                                                                    *)

\* sample.task_id of the k-th sample of a list
sample_task_id(k) == <<"s", "_", Digit(k)>>

\* What response.json() of POST /evaluate is in the runs followed task by task
TaskResponses == { [output |-> ReportText(2, 2)], [output |-> ReportText(1, 2)] }

\* max_interaction_steps of the adapters whose runs are followed task by task
TaskSteps == {0, 1}

TasksInit ==
    /\ \E pb \in InitialPlaybooks :
          /\ tips = pb.tips
          /\ sections = pb.sections
          /\ next_id = pb.next_id
    /\ last = [op |-> "__init__", hit |-> FALSE, exc |-> "none"]
    /\ phase = "train"
    /\ max_interaction_steps \in TaskSteps
    /\ task_id = None
    /\ pc = "idle"
    /\ interaction_step = 0
    /\ execution_status = "unset"
    /\ generator_output = NoOutput
    /\ final_generator_output = NoOutput
    /\ trajectory = Trajectory
    /\ metrics = <<>>
    /\ sgc_cnt = <<>>
    /\ result = <<>>
    /\ log = <<>>
    /\ given = NothingGiven
    /\ RoleIdle
    /\ mode \in {"offline", "online", "baseline"}
    /\ epochs = 1
    /\ train_samples \in IF mode = "baseline" THEN {0} ELSE 0..MaxTrain
    /\ test_samples \in IF mode = "online" THEN {0} ELSE 0..MaxTest
    /\ deduplicator \in IF mode = "baseline" THEN {FALSE} ELSE BOOLEAN
    /\ dedup_frequency \in IF mode = "baseline" THEN {0} ELSE 0..MaxFrequency
    /\ has_bullet_id \in BOOLEAN
    /\ epoch_idx = 1
    /\ step_idx = 1
    /\ sample_counter = 0
    /\ bullet_ids_buffer = <<>>
    /\ added_since_flush = {}
    /\ run_pc = IF mode = "baseline"
               THEN (IF test_samples >= 1 THEN "test" ELSE "returned")
               ELSE IF train_samples >= 1 THEN "train" ELSE "final_deduplicate"
    /\ run_log = <<>>

\* The call of _process_sample (training samples) or _evaluation_sample (test
\* samples, and the samples of the baseline run) on the next sample, up to
\* `trajectory = Trajectory(task=sample.question, steps=[])`.  log starts
\* again: it holds the calls of the task under way, or of the last task
ProcessSample ==
    /\ run_pc \in {"train", "test"}
    /\ pc = "idle"
    /\ phase' = IF run_pc = "train" THEN "train"
                ELSE IF mode = "baseline" THEN "baseline" ELSE "test"
    /\ task_id' = sample_task_id(step_idx)
    /\ pc' = "initialize_task"
    /\ interaction_step' = 0
    /\ execution_status' = "unset"
    /\ generator_output' = NoOutput
    /\ final_generator_output' = NoOutput
    /\ trajectory' = Trajectory
    /\ metrics' = <<>>
    /\ result' = <<>>
    /\ log' = <<>>
    /\ UNCHANGED <<max_interaction_steps, sgc_cnt, pbvars, auxvars>>

\* _process_sample has returned: the statements of the training loop after
\* the call, up to the periodic deduplication test
ProcessSampleReturned ==
    /\ run_pc = "train"
    /\ pc = "returned"
    /\ pc' = "idle"
    /\ run_log' = Append(run_log, <<"_process_sample", epoch_idx, step_idx>>)
    /\ LET operations == result[1].curator_output IN
       IF operations # <<>> /\ ~has_bullet_id
       THEN /\ run_pc' = "raised"
            /\ UNCHANGED <<epoch_idx, step_idx, sample_counter, bullet_ids_buffer>>
       ELSE /\ bullet_ids_buffer' = bullet_ids_buffer \o new_bullet_ids(operations)
            /\ sample_counter' = sample_counter + 1
            /\ IF flush_due(sample_counter + 1)
               THEN /\ run_pc' = "deduplicate"
                    /\ UNCHANGED <<epoch_idx, step_idx>>
               ELSE next_sample
    /\ UNCHANGED <<phase, max_interaction_steps, task_id, interaction_step,
                   execution_status, generator_output, final_generator_output,
                   trajectory, metrics, sgc_cnt, result, log, pbvars, given,
                   rolevars, mode, epochs, train_samples, test_samples,
                   deduplicator, dedup_frequency, has_bullet_id,
                   added_since_flush>>

\* _evaluation_sample has returned: the for statement of the test phase, or of
\* the baseline run
EvaluationSampleReturned ==
    /\ run_pc = "test"
    /\ pc = "returned"
    /\ pc' = "idle"
    /\ run_log' = Append(run_log, <<"_evaluation_sample", 0, step_idx>>)
    /\ IF step_idx < test_samples
       THEN step_idx' = step_idx + 1 /\ UNCHANGED run_pc
       ELSE run_pc' = "returned" /\ UNCHANGED step_idx
    /\ UNCHANGED <<phase, max_interaction_steps, task_id, interaction_step,
                   execution_status, generator_output, final_generator_output,
                   trajectory, metrics, sgc_cnt, result, log, pbvars, given,
                   rolevars, mode, epochs, train_samples, test_samples,
                   deduplicator, dedup_frequency, has_bullet_id, epoch_idx,
                   sample_counter, bullet_ids_buffer, added_since_flush>>

\* _process_sample or _evaluation_sample has raised: run has no except clause
\* and raises
SampleRaised ==
    /\ run_pc \in {"train", "test"}
    /\ pc = "raised"
    /\ run_pc' = "raised"
    /\ UNCHANGED <<pbvars, loopvars, given, rolevars, mode, epochs, train_samples,
                   test_samples, deduplicator, dedup_frequency, has_bullet_id,
                   epoch_idx, step_idx, sample_counter, bullet_ids_buffer,
                   added_since_flush, run_log>>

TasksNext ==
    \/ ProcessSample
    \/ InitializeTask
    \/ Generate
    \/ ExecuteCode
    \/ IsTaskCompleted
    \/ EvaluateTaskWith(TaskResponses)
    \/ CloseTask
    \/ Reflect
    \/ CurateWith(RunBatches)
    \/ ProcessSampleReturned
    \/ EvaluationSampleReturned
    \/ SampleRaised
    \/ PeriodicDeduplicate
    \/ FinalDeduplicate

SpecTasks == TasksInit /\ [][TasksNext]_vars

----------------------------------------------------------------------------
(* The roles: what a response text parses to *)

\* Values of Python, each with its type
PyStr(value) == [type |-> "str", value |-> value]
PyNone == [type |-> "NoneType"]
PyInt(value) == [type |-> "int", value |-> value]
PyList(items) == [type |-> "list", items |-> items]
\* a dict is the function from its keys
PyDict(d) == [type |-> "dict", d |-> d]

\* json.loads found no JSON in the text
Invalid == [type |-> "JSONDecodeError"]
\* a regular expression did not match
NoMatch == [type |-> "no match"]

\* data.get(key, default)
dict_get(data, key, default) ==
    IF key \in DOMAIN data.d THEN data.d[key] ELSE default

\* str(value), as far as emptiness and the text of None go: the text of a list,
\* a dict or a number is some text that is not empty
py_str(v) ==
    CASE v.type = "str" -> v.value
      [] v.type = "NoneType" -> <<"N", "o", "n", "e">>
      [] v.type = "list" -> <<"[", "]">>
      [] v.type = "dict" -> <<"{", "}">>
      [] v.type = "int" -> <<"0">>

\* The content of a Markdown section: its text, and what json.loads gives for
\* that text
Content(text, loads) == [text |-> text, loads |-> loads]

\* text.strip() starts with the fence that opens a json code block
JsonFence == "fence json"

\* A response text, by what the two parsers read of it:
\*   starts    what text.strip() starts with: "{", JsonFence, or "#" for
\*             anything else
\*   xml       what json.loads gives for the text inside
\*             <json_output>...</json_output>, NoMatch without such tags
\*   json      what json.loads gives for the text from the first "{" to the
\*             last "}", NoMatch without such text
\*   sections  the sections of the Markdown text in order, each the text of
\*             its header line after the "#"s and its content
Text(starts, xml, json, md_sections) ==
    [starts |-> starts, xml |-> xml, json |-> json, sections |-> md_sections]

\* What a parser gives: the data it returns, or the exception it raises
Parsed(data) == [data |-> data, exc |-> "none"]
ParseRaises(exc) == [data |-> PyNone, exc |-> exc]

\* _safe_json_loads of a str. With <json_output> tags whose content is not
\* JSON, the JSONDecodeError is caught and the isinstance test that follows
\* reads the local data, which was never assigned; with tags whose content is
\* JSON, that value is returned whatever its type.
_safe_json_loads(text) ==
    IF text.xml # NoMatch
    THEN IF text.xml # Invalid THEN Parsed(text.xml)
         ELSE ParseRaises("UnboundLocalError")
    ELSE IF text.json = NoMatch THEN Parsed(PyDict(<<>>))
    ELSE IF text.json = Invalid THEN ParseRaises("ValueError")
    ELSE IF text.json.type # "dict" THEN ParseRaises("ValueError")
    ELSE Parsed(text.json)

\* header_text.lower().replace(" ", "_"), for the header texts of the model
normalized_key(header_text) ==
    CASE header_text = "Key Insight" -> "key_insight"
      [] header_text = "Bullet Tags" -> "bullet_tags"
      [] header_text = "Bullet Ids" -> "bullet_ids"
      [] header_text = "Final Answer" -> "final_answer"
      [] header_text = "Reasoning" -> "reasoning"
      [] header_text = "Operations" -> "operations"
      [] header_text = "Error Identification" -> "error_identification"
      [] header_text = "Root Cause Analysis" -> "root_cause_analysis"
      [] header_text = "Correct Approach" -> "correct_approach"
      [] header_text = "Secret Notes" -> "secret_notes"
      [] OTHER -> header_text

\* raw_data of _markdown_parser: a later section of the same key replaces an
\* earlier one
RECURSIVE raw_data(_)
raw_data(md_sections) ==
    IF md_sections = <<>> THEN <<>>
    ELSE LET n == Len(md_sections)
             earlier == raw_data(SubSeq(md_sections, 1, n - 1))
             key == normalized_key(md_sections[n][1])
         IN  [k \in DOMAIN earlier \cup {key} |->
                IF k = key THEN md_sections[n][2] ELSE earlier[k]]

\* content.startswith("[") and content.endswith("]")
looks_like_list(content) ==
    /\ content.text # <<>>
    /\ content.text[1] = "["
    /\ content.text[Len(content.text)] = "]"

\* The value _markdown_parser stores for one key of the schema, in a list
\* that is empty when it stores none (a content that json.loads reads as
\* something other than a list). Contents of the model hold no code fence.
final_result_of(content, expected_val) ==
    IF expected_val.type = "list" \/ looks_like_list(content)
    THEN IF lower(content.text) \in {<<"n", "o", "n", "e">>, <<"n", "u", "l", "l">>}
         THEN << PyList(<<>>) >>
         ELSE IF content.loads = Invalid THEN << PyStr(content.text) >>
         ELSE IF content.loads.type = "list" THEN << content.loads >>
         ELSE <<>>
    ELSE << PyStr(content.text) >>

\* _markdown_parser without the filter by schema: every section is stored
_markdown_parser_keeping_every_section(md_text, schema) ==
    LET raw == raw_data(md_text.sections)
        expected(key) == IF key \in DOMAIN schema THEN schema[key] ELSE PyStr(<<>>)
        stored == {key \in DOMAIN raw : final_result_of(raw[key], expected(key)) # <<>>}
    IN  IF DOMAIN schema \ DOMAIN raw # {} THEN ParseRaises("ValueError")
        ELSE Parsed(PyDict([key \in stored |->
                               final_result_of(raw[key], expected(key))[1]]))

\* _markdown_parser(md_text, schema): ValueError when a key of the schema has
\* no section; the sections of other keys are ignored
_markdown_parser(md_text, schema) ==
    LET raw == raw_data(md_text.sections)
        stored == {key \in DOMAIN schema :
                     key \in DOMAIN raw /\ final_result_of(raw[key], schema[key]) # <<>>}
    IN  IF DOMAIN schema \ DOMAIN raw # {} THEN ParseRaises("ValueError")
        ELSE Parsed(PyDict([key \in stored |->
                               final_result_of(raw[key], schema[key])[1]]))

\* The schema arguments' defaults
GeneratorSchema ==
    [reasoning |-> PyStr(<<>>), bullet_ids |-> PyList(<<>>),
     final_answer |-> PyStr(<<>>)]

ReflectorSchema ==
    [reasoning |-> PyStr(<<>>), error_identification |-> PyStr(<<>>),
     root_cause_analysis |-> PyStr(<<>>), correct_approach |-> PyStr(<<>>),
     key_insight |-> PyStr(<<>>), bullet_tags |-> PyList(<<>>)]

CuratorSchema == [reasoning |-> PyStr(<<>>), operations |-> PyList(<<>>)]

\* What the statements between the completion call and the return give for a
\* response text: the output built, in a list that is empty when an
\* exception is raised instead
Built(output) == [output |-> << output >>, exc |-> "none"]
BuildRaises(exc) == [output |-> <<>>, exc |-> exc]

\* isinstance(item, (str, int))
is_str_or_int(item) == item.type \in {"str", "int"}

\* [str(item) for item in value if isinstance(item, (str, int))], for a list
RECURSIVE strs_of(_)
strs_of(items) ==
    IF items = <<>> THEN <<>>
    ELSE LET rest == strs_of(Tail(items))
         IN  IF is_str_or_int(Head(items))
             THEN << py_str(Head(items)) >> \o rest ELSE rest

\* The try block of generate after the completion call. The items of a str
\* are its characters; None and a number cannot be iterated.
generate_output(text, schema) ==
    LET parsed == IF text.starts \in {"{", JsonFence}
                  THEN _safe_json_loads(text)
                  ELSE _markdown_parser(text, schema)
        data == parsed.data
        bullet_ids == dict_get(data, "bullet_ids", PyList(<<>>))
    IN  IF parsed.exc # "none" THEN BuildRaises(parsed.exc)
        ELSE IF data.type # "dict" THEN BuildRaises("AttributeError")
        ELSE IF bullet_ids.type \notin {"list", "str"} THEN BuildRaises("TypeError")
        ELSE Built([reasoning |-> py_str(dict_get(data, "reasoning", PyStr(<<>>))),
                    final_answer |-> py_str(dict_get(data, "final_answer", PyStr(<<>>))),
                    bullet_ids |-> IF bullet_ids.type = "list"
                                   THEN strs_of(bullet_ids.items)
                                   ELSE [i \in 1..Len(bullet_ids.value) |->
                                           << bullet_ids.value[i] >>],
                    raw |-> data])

\* isinstance(item, dict) and "id" in item and "tag" in item
is_tag_item(item) ==
    item.type = "dict" /\ "id" \in DOMAIN item.d /\ "tag" \in DOMAIN item.d

\* BulletTag(id=str(item["id"]), tag=str(item["tag"]).lower())
BulletTag(item) == [id |-> py_str(item.d["id"]), tag |-> lower(py_str(item.d["tag"]))]

RECURSIVE bullet_tags_of(_)
bullet_tags_of(items) ==
    IF items = <<>> THEN <<>>
    ELSE LET rest == bullet_tags_of(Tail(items))
         IN  IF is_tag_item(Head(items))
             THEN << BulletTag(Head(items)) >> \o rest ELSE rest

\* The try block of reflect up to `result = candidate`. A str is a Sequence
\* too, and none of its characters is a dict.
reflect_candidate(text, schema) ==
    LET parsed == IF text.starts = "{"
                  THEN _safe_json_loads(text)
                  ELSE _markdown_parser(text, schema)
        data == parsed.data
        tags_payload == dict_get(data, "bullet_tags", PyList(<<>>))
    IN  IF parsed.exc # "none" THEN BuildRaises(parsed.exc)
        ELSE IF data.type # "dict" THEN BuildRaises("AttributeError")
        ELSE Built([reasoning |-> py_str(dict_get(data, "reasoning", PyStr(<<>>))),
                    key_insight |-> py_str(dict_get(data, "key_insight", PyStr(<<>>))),
                    bullet_tags |-> IF tags_payload.type = "list"
                                    THEN bullet_tags_of(tags_payload.items)
                                    ELSE <<>>,
                    raw |-> data])

\* `if bullet_tags or candidate.key_insight`
actionable_tags_only(candidate) == candidate.bullet_tags # <<>>

actionable(candidate) ==
    candidate.bullet_tags # <<>> \/ candidate.key_insight # <<>>

\* A value of a JSON operation as DeltaOperation.from_json reads it
plain(v) ==
    CASE v.type = "str" -> v.value
      [] v.type = "NoneType" -> None
      [] v.type = "list" -> [i \in 1..Len(v.items) |-> py_str(v.items[i])]

\* payload.get(key) of a JSON operation, Absent without the key
payload_of(item) ==
    LET field(key) == IF key \in DOMAIN item.d THEN plain(item.d[key]) ELSE Absent
    IN  Payload(field("type"), field("section"), field("content"),
                field("tip_id"), field("scenario_tags"))

\* The items of ops_payload that are dicts
RECURSIVE dicts_of(_)
dicts_of(items) ==
    IF items = <<>> THEN <<>>
    ELSE LET rest == dicts_of(Tail(items))
         IN  IF Head(items).type = "dict" THEN << Head(items) >> \o rest ELSE rest

\* The try block of curate: DeltaBatch.from_json(data) and the CuratorOutput.
\* payload["type"] of an operation without the key raises KeyError.
curate_output(text, schema) ==
    LET parsed == IF text.starts = "{"
                  THEN _safe_json_loads(text)
                  ELSE _markdown_parser(text, schema)
        data == parsed.data
        ops_payload == dict_get(data, "operations", PyNone)
        items == IF ops_payload.type = "list" THEN dicts_of(ops_payload.items) ELSE <<>>
    IN  IF parsed.exc # "none" THEN BuildRaises(parsed.exc)
        ELSE IF data.type # "dict" THEN BuildRaises("AttributeError")
        ELSE IF \E i \in 1..Len(items) : "type" \notin DOMAIN items[i].d
             THEN BuildRaises("KeyError")
        ELSE Built([delta |->
                      [reasoning |-> py_str(dict_get(data, "reasoning", PyStr(<<>>))),
                       operations |->
                          DeltaBatch_from_json([i \in 1..Len(items) |-> payload_of(items[i])])],
                    raw |-> data])

----------------------------------------------------------------------------
(* The roles: the response texts of the model *)

Prose(chars) == Content(chars, Invalid)
EmptyContent == Prose(<<>>)
\* "none"
NoneContent == Prose(<<"n", "o", "n", "e">>)
\* "[]"
EmptyListContent == Content(<<"[", "]">>, PyList(<<>>))
\* a JSON list of one tag: [{"id": "a", "tag": "D"}]
TagListContent ==
    Content(<<"[", "t", "]">>,
            PyList(<< PyDict([id |-> PyStr(<<"a">>), tag |-> PyStr(<<"D">>)]) >>))
\* a JSON list of one ADD operation
OperationListContent ==
    Content(<<"[", "o", "]">>,
            PyList(<< PyDict([type |-> PyStr(TypeADD), section |-> PyStr(<<"s">>),
                              content |-> PyStr(<<"c">>)]) >>))

Markdown(md_sections) == Text("#", NoMatch, NoMatch, md_sections)

\* "{" ... "}" that is not JSON
BrokenJson == Text("{", NoMatch, Invalid, <<>>)
\* "{" and no "}" after it
UnclosedJson == Text("{", NoMatch, NoMatch, <<>>)
\* "{" and later <json_output> tags around something that is not JSON
BrokenXml == Text("{", Invalid, NoMatch, <<>>)

GeneratorTexts ==
    { Markdown(<< <<"Reasoning", Prose(<<"r">>)>>, <<"Bullet Ids", EmptyListContent>>,
                  <<"Final Answer", Prose(<<"c">>)>> >>),
      Markdown(<< <<"Reasoning", Prose(<<"r">>)>> >>),
      Text(JsonFence, NoMatch,
           PyDict([reasoning |-> PyStr(<<"r">>),
                   bullet_ids |-> PyList(<< PyInt(1), PyNone >>),
                   final_answer |-> PyStr(<<"c">>)]), <<>>),
      BrokenJson, UnclosedJson, BrokenXml }

ReflectorMarkdown(key_insight, bullet_tags) ==
    Markdown(<< <<"Reasoning", Prose(<<"r">>)>>,
                <<"Error Identification", EmptyContent>>,
                <<"Root Cause Analysis", EmptyContent>>,
                <<"Correct Approach", EmptyContent>>,
                <<"Key Insight", key_insight>>,
                <<"Bullet Tags", bullet_tags>> >>)

ReflectorTexts ==
    { ReflectorMarkdown(Prose(<<"k">>), NoneContent),
      ReflectorMarkdown(EmptyContent, TagListContent),
      ReflectorMarkdown(EmptyContent, NoneContent),
      Markdown(<< <<"Reasoning", Prose(<<"r">>)>>, <<"Bullet Tags", NoneContent>> >>),
      Text("{", NoMatch, PyDict([reasoning |-> PyStr(<<"r">>), key_insight |-> PyNone]), <<>>),
      Text(JsonFence, NoMatch,
           PyDict([reasoning |-> PyStr(<<"r">>), key_insight |-> PyStr(<<"k">>)]), <<>>),
      BrokenJson, UnclosedJson, BrokenXml }

CuratorTexts ==
    { Markdown(<< <<"Reasoning", Prose(<<"r">>)>>, <<"Operations", OperationListContent>> >>),
      Markdown(<< <<"Reasoning", Prose(<<"r">>)>>, <<"Operations", NoneContent>> >>),
      Markdown(<< <<"Reasoning", Prose(<<"r">>)>> >>),
      Text("{", NoMatch,
           PyDict([reasoning |-> PyStr(<<"r">>),
                   operations |-> PyList(<< PyDict([section |-> PyStr(<<"s">>)]) >>)]), <<>>),
      Text(JsonFence, NoMatch,
           PyDict([reasoning |-> PyStr(<<"r">>), operations |-> PyList(<<>>)]), <<>>),
      BrokenJson, BrokenXml }

\* What self.llm.complete can do: return a response with a text, or raise
Responds(text) == [text |-> << text >>, exc |-> "none"]
CompleteRaises(exc) == [text |-> <<>>, exc |-> exc]

----------------------------------------------------------------------------
(* The roles: generate, reflect, curate *)

BASE_PROMPT == "base_prompt"
\* base_prompt + "\n\nIMPORTANT: You must output a single Text object only. ..."
CORRECTIVE_PROMPT == "base_prompt + IMPORTANT"

\* The record of one self.llm.complete call: the round and attempt it was made
\* in, the prompt it was given, whether a response came back, and what the
\* statements after it gave
Completion(complete, built) ==
    [round_idx |-> round_idx, attempt |-> attempt, prompt |-> prompt,
     responded |-> complete.exc = "none", text |-> complete.text,
     output |-> built.output, exc |-> built.exc]

Returns(value) == [returns |-> "value", value |-> << value >>, exc |-> "none"]
ReturnsNone == [returns |-> "None", value |-> <<>>, exc |-> "none"]
Raises(exc) == [returns |-> "raise", value |-> <<>>, exc |-> exc]

\* A method of one role is called, with no completion call made yet
RoleInit ==
    /\ PlaybookInit
    /\ AdapterIdle
    /\ given = NothingGiven
    /\ RunIdle
    /\ role \in {"generator", "reflector", "curator"}
    /\ max_retries \in 0..MaxRetries
    /\ max_refinement_rounds \in IF role = "reflector" THEN 0..MaxRounds ELSE {0}
    /\ round_idx = 0
    /\ attempt = 0
    /\ prompt = BASE_PROMPT
    /\ reflect_result = <<>>
    /\ completions = <<>>
    /\ role_pc = "loop"
    /\ returned = <<>>

\* `if attempt + 1 >= self.max_retries: break`, else the corrective prompt and
\* the next attempt
out_of_retries == attempt + 1 >= max_retries

RetryOrBreak ==
    IF out_of_retries
    THEN /\ role_pc' = "after_loop"
         /\ UNCHANGED <<attempt, prompt>>
    ELSE /\ role_pc' = "loop"
         /\ attempt' = attempt + 1
         /\ prompt' = CORRECTIVE_PROMPT

\* The exceptions of generate's two except clauses
generator_retried_whatever_is_raised ==
    {"ValueError", "InternalServerError", "APIConnectionError"}

generator_retried == {"ValueError", "InternalServerError"}

\* One pass of the for loop of generate: the completion call inside the try
\* block, the parse, and the return or the except clause
GenerateAttempt ==
    /\ role = "generator"
    /\ role_pc = "loop"
    /\ attempt < max_retries
    /\ \E complete \in {Responds(text) : text \in GeneratorTexts}
                       \cup {CompleteRaises("InternalServerError"),
                             CompleteRaises("APIConnectionError")} :
          LET built == IF complete.exc = "none"
                       THEN generate_output(complete.text[1], GeneratorSchema)
                       ELSE BuildRaises(complete.exc)
          IN  /\ completions' = Append(completions, Completion(complete, built))
              /\ IF built.exc = "none"
                 THEN /\ role_pc' = "returned"
                      /\ returned' = << Returns(built.output[1]) >>
                      /\ UNCHANGED <<attempt, prompt>>
                 ELSE IF built.exc \in generator_retried
                 THEN RetryOrBreak /\ UNCHANGED returned
                 ELSE /\ role_pc' = "raised"
                      /\ returned' = << Raises(built.exc) >>
                      /\ UNCHANGED <<attempt, prompt>>
    /\ UNCHANGED <<role, max_retries, max_refinement_rounds, round_idx, reflect_result>>
    /\ UNCHANGED <<pbvars, loopvars, given, runvars>>

\* `return None` after the loop
generate_after_loop == ReturnsNone

GenerateEnd ==
    /\ role = "generator"
    /\ role_pc = "after_loop" \/ (role_pc = "loop" /\ attempt >= max_retries)
    /\ role_pc' = (IF generate_after_loop.exc = "none" THEN "returned" ELSE "raised")
    /\ returned' = << generate_after_loop >>
    /\ UNCHANGED <<role, max_retries, max_refinement_rounds, round_idx, attempt,
                   prompt, reflect_result, completions>>
    /\ UNCHANGED <<pbvars, loopvars, given, runvars>>

\* `break` out of the inner loop of reflect, or its end: the next round starts
\* with the base prompt
NextRound ==
    /\ round_idx' = round_idx + 1
    /\ attempt' = 0
    /\ prompt' = BASE_PROMPT
    /\ role_pc' = "loop"

\* One pass of the inner for loop of reflect: the completion call (outside the
\* try block), the parse, and the return, the break or the except clause
ReflectAttempt ==
    /\ role = "reflector"
    /\ role_pc = "loop"
    /\ round_idx < max_refinement_rounds
    /\ attempt < max_retries
    /\ \E complete \in {Responds(text) : text \in ReflectorTexts}
                       \cup {CompleteRaises("APIConnectionError")} :
          LET built == IF complete.exc = "none"
                       THEN reflect_candidate(complete.text[1], ReflectorSchema)
                       ELSE BuildRaises(complete.exc)
          IN  /\ completions' = Append(completions, Completion(complete, built))
              /\ IF built.exc = "none"
                 THEN /\ reflect_result' = built.output
                      /\ IF actionable(built.output[1])
                         THEN /\ role_pc' = "returned"
                              /\ returned' = << Returns(built.output[1]) >>
                              /\ UNCHANGED <<round_idx, attempt, prompt>>
                         ELSE NextRound /\ UNCHANGED returned
                 ELSE IF built.exc = "ValueError"
                 THEN /\ IF out_of_retries
                         THEN NextRound
                         ELSE /\ role_pc' = "loop"
                              /\ attempt' = attempt + 1
                              /\ prompt' = CORRECTIVE_PROMPT
                              /\ UNCHANGED round_idx
                      /\ UNCHANGED <<reflect_result, returned>>
                 ELSE /\ role_pc' = "raised"
                      /\ returned' = << Raises(built.exc) >>
                      /\ UNCHANGED <<round_idx, attempt, prompt, reflect_result>>
    /\ UNCHANGED <<role, max_retries, max_refinement_rounds>>
    /\ UNCHANGED <<pbvars, loopvars, given, runvars>>

\* After the rounds (with max_retries 0 no round makes a call):
\* `if result is None: raise RuntimeError(...)`, else `return result`
reflect_after_rounds ==
    IF reflect_result = <<>> THEN Raises("RuntimeError")
    ELSE Returns(reflect_result[1])

ReflectEnd ==
    /\ role = "reflector"
    /\ role_pc = "loop"
    /\ round_idx >= max_refinement_rounds \/ max_retries <= 0
    /\ role_pc' = (IF reflect_after_rounds.exc = "none" THEN "returned" ELSE "raised")
    /\ returned' = << reflect_after_rounds >>
    /\ UNCHANGED <<role, max_retries, max_refinement_rounds, round_idx, attempt,
                   prompt, reflect_result, completions>>
    /\ UNCHANGED <<pbvars, loopvars, given, runvars>>

\* One pass of the for loop of curate: the completion call (outside the try
\* block), the parse and DeltaBatch.from_json, and the return or the except
\* clause
CurateAttempt ==
    /\ role = "curator"
    /\ role_pc = "loop"
    /\ attempt < max_retries
    /\ \E complete \in {Responds(text) : text \in CuratorTexts}
                       \cup {CompleteRaises("APIConnectionError")} :
          LET built == IF complete.exc = "none"
                       THEN curate_output(complete.text[1], CuratorSchema)
                       ELSE BuildRaises(complete.exc)
          IN  /\ completions' = Append(completions, Completion(complete, built))
              /\ IF built.exc = "none"
                 THEN /\ role_pc' = "returned"
                      /\ returned' = << Returns(built.output[1]) >>
                      /\ UNCHANGED <<attempt, prompt>>
                 ELSE IF built.exc = "ValueError"
                 THEN RetryOrBreak /\ UNCHANGED returned
                 ELSE /\ role_pc' = "raised"
                      /\ returned' = << Raises(built.exc) >>
                      /\ UNCHANGED <<attempt, prompt>>
    /\ UNCHANGED <<role, max_retries, max_refinement_rounds, round_idx, reflect_result>>
    /\ UNCHANGED <<pbvars, loopvars, given, runvars>>

\* `raise RuntimeError(...) from last_error` after the loop
curate_after_loop == Raises("RuntimeError")

CurateEnd ==
    /\ role = "curator"
    /\ role_pc = "after_loop" \/ (role_pc = "loop" /\ attempt >= max_retries)
    /\ role_pc' = "raised"
    /\ returned' = << curate_after_loop >>
    /\ UNCHANGED <<role, max_retries, max_refinement_rounds, round_idx, attempt,
                   prompt, reflect_result, completions>>
    /\ UNCHANGED <<pbvars, loopvars, given, runvars>>

RoleNext ==
    \/ GenerateAttempt
    \/ GenerateEnd
    \/ ReflectAttempt
    \/ ReflectEnd
    \/ CurateAttempt
    \/ CurateEnd

SpecRole == RoleInit /\ [][RoleNext]_vars

----------------------------------------------------------------------------
(* _markdown_parser called on a Markdown text with a schema *)

MaxSections == 3

\* The header texts and the contents of the sections of the texts parsed
SectionHeaders == {"Reasoning", "Operations", "Final Answer", "Bullet Ids", "Secret Notes"}
\* "5", which json.loads reads as a number
NumberContent == Content(<<"5">>, PyInt(5))
SectionContents == {Prose(<<"r">>), EmptyListContent, NumberContent}

ParseInit ==
    /\ PlaybookInit
    /\ AdapterIdle
    /\ RunIdle
    /\ RoleIdle
    /\ \E md_sections \in SeqsUpTo(SectionHeaders \X SectionContents, MaxSections),
          schema \in {GeneratorSchema, CuratorSchema} :
          given = [call |-> "_markdown_parser", pb |-> EmptyPlaybook,
                   operations |-> <<>>, tip_ids |-> {}, similar |-> {},
                   md_text |-> Markdown(md_sections), schema |-> schema]

MarkdownParserCall ==
    /\ given.call = "_markdown_parser"
    /\ returned = <<>>
    /\ returned' = << _markdown_parser(given.md_text, given.schema) >>
    /\ UNCHANGED <<pbvars, loopvars, given, runvars, role, max_retries,
                   max_refinement_rounds, round_idx, attempt, prompt,
                   reflect_result, completions, role_pc>>

ParseNext ==
    \/ MarkdownParserCall

SpecParse == ParseInit /\ [][ParseNext]_vars

----------------------------------------------------------------------------
(* One update_tip call with its arguments on record *)

\* The playbooks that at most n add_tip calls on an empty playbook leave, the
\* tips with and without tags
RECURSIVE TaggedPlaybooksUpTo(_)
TaggedPlaybooksUpTo(n) ==
    IF n = 0 THEN {EmptyPlaybook}
    ELSE LET fewer == TaggedPlaybooksUpTo(n - 1) IN
         fewer \cup { add_tip(pb, section, <<"x">>, tip_id, scenario_tags).pb :
                          pb \in fewer, section \in {SecApi, <<"D">>},
                          tip_id \in CallerIds \cup {None},
                          scenario_tags \in {<<"p">>, None} }

\* The tag lists given to update_tip: two new tags, one new and one old tag,
\* a tag twice, no tag
UpdateTagLists == {<<"q", "r">>, <<"q", "p">>, <<"q", "q">>, <<>>}

UpdateInit ==
    /\ last = [op |-> "__init__", hit |-> FALSE, exc |-> "none"]
    /\ AdapterIdle
    /\ RunIdle
    /\ RoleIdle
    /\ \E pb \in TaggedPlaybooksUpTo(MaxTips) :
          \E tip_id \in DOMAIN pb.tips \cup CallerIds, content \in Contents \cup {None},
             scenario_tags \in UpdateTagLists \cup {None} :
             /\ tips = pb.tips
             /\ sections = pb.sections
             /\ next_id = pb.next_id
             /\ given = [call |-> "update_tip", pb |-> pb, operations |-> <<>>,
                         tip_ids |-> {}, similar |-> {}, tip_id |-> tip_id,
                         content |-> content, scenario_tags |-> scenario_tags]

UpdateTipGiven ==
    /\ given.call = "update_tip"
    /\ last.op = "__init__"
    /\ Called("update_tip", given.tip_id,
              update_tip(PB, given.tip_id, given.content, given.scenario_tags))
    /\ UNCHANGED <<loopvars, auxvars>>

UpdateNext ==
    \/ UpdateTipGiven

SpecUpdate == UpdateInit /\ [][UpdateNext]_vars

----------------------------------------------------------------------------
(* add_tip and remove_tip calls on a playbook created empty, with the ids    *)
(* that add_tip generated counted                                            *)

\* "API Usage"
SecApiUsage == <<"A", "P", "I", " ", "U", "s", "a", "g", "e">>

IdSections == {SecApiUsage, SecApi, SecEmpty}

\* given.generated is the number of ids _generate_id has returned to add_tip,
\* given.id the last of them and given.section the section it was made for
IdsInit ==
    /\ PlaybookInit
    /\ AdapterIdle
    /\ RunIdle
    /\ RoleIdle
    /\ given = [call |-> "add_tip", pb |-> EmptyPlaybook, operations |-> <<>>,
                tip_ids |-> {}, similar |-> {}, generated |-> 0,
                id |-> None, section |-> None]

AddTipCounted ==
    /\ given.call = "add_tip"
    /\ \E section \in IdSections, tip_id \in CallerIds \cup {None} :
          LET r == add_tip(PB, section, <<"x">>, tip_id, None)
              g == generate_id(PB, section)
          IN  /\ Bounded(r)
              /\ Called("add_tip", tip_id, r)
              /\ IF (tip_id = None \/ tip_id \in DOMAIN tips) /\ g.exc = "none"
                 THEN given' = [given EXCEPT !.generated = @ + 1, !.id = g.id,
                                             !.section = section]
                 ELSE UNCHANGED given
    /\ UNCHANGED <<loopvars, runvars, rolevars>>

IdsNext ==
    \/ AddTipCounted
    \/ RemoveTipCall

SpecIds == IdsInit /\ [][IdsNext]_vars

----------------------------------------------------------------------------
(* evaluate_task called with what each of its requests would yield *)

EvaluateInit ==
    /\ PlaybookInit
    /\ AdapterIdle
    /\ RunIdle
    /\ RoleIdle
    /\ \E attempts \in [1..EvaluateAttempts -> EvaluateResponses \cup {RequestFails}] :
          given = [call |-> "evaluate_task", pb |-> EmptyPlaybook,
                   operations |-> <<>>, tip_ids |-> {}, similar |-> {},
                   attempts |-> attempts]

EvaluateTaskCall ==
    /\ given.call = "evaluate_task"
    /\ returned = <<>>
    /\ returned' = << evaluate_task(given.attempts) >>
    /\ UNCHANGED <<pbvars, loopvars, given, runvars, role, max_retries,
                   max_refinement_rounds, round_idx, attempt, prompt,
                   reflect_result, completions, role_pc>>

EvaluateNext ==
    \/ EvaluateTaskCall

SpecEvaluate == EvaluateInit /\ [][EvaluateNext]_vars

----------------------------------------------------------------------------
(* Claims about the playbook *)

\* C1: after any sequence of add_tip, update_tip, tag_tip, remove_tip,
\* apply_delta and deduplicate calls on a playbook created empty, every tip id
\* in a section's id list is a key of the tip map.
C1_SectionIdsAreTips ==
    \A s \in DOMAIN sections :
       \A i \in 1..Len(sections[s]) : sections[s][i] \in DOMAIN tips

\* C2: an add_tip call that returns has stored the new tip under an id that no
\* tip had: every tip of before is still there, unchanged, and there is exactly
\* one tip more.
C2_AddTipNeverReplaces ==
    [][ (last'.op = "add_tip" /\ last'.exc = "none") =>
           /\ Cardinality(DOMAIN tips') = Cardinality(DOMAIN tips) + 1
           /\ \A id \in DOMAIN tips : id \in DOMAIN tips' /\ tips'[id] = tips[id] ]_vars

\* C9: update_tip, tag_tip and remove_tip called with a tip_id that is not a key
\* of the tip map raise nothing and leave the tip map, the section index and
\* next_id as they were.
C9_UnknownIdIsNoOp ==
    [][ (last'.op \in {"update_tip", "tag_tip", "remove_tip"} /\ ~last'.hit) =>
           /\ last'.exc = "none"
           /\ tips' = tips
           /\ sections' = sections
           /\ next_id' = next_id ]_vars

\* An unknown-id call has been made on a playbook that holds tips
C9_Witness ==
    /\ last.op = "remove_tip"
    /\ ~last.hit
    /\ DOMAIN tips # {}
    /\ next_id > 0

\* C10: apply_delta never raises, whatever operations the curator's response
\* carried.
C10_ApplyDeltaNeverRaises ==
    last.op = "apply_delta" => last.exc = "none"

\* An UPDATE, TAG or REMOVE whose tip_id is missing or is no key of the tip map
UnknownTarget(pb, operation) ==
    /\ upper(operation.type) \in {TypeUPDATE, TypeTAG, TypeREMOVE}
    /\ operation.tip_id = None \/ operation.tip_id \notin DOMAIN pb.tips

\* The playbook reached by applying the operations one at a time, in list
\* order, an operation with an unknown target changing nothing
RECURSIVE OneAtATime(_, _)
OneAtATime(pb, operations) ==
    IF operations = <<>> THEN pb
    ELSE OneAtATime(IF UnknownTarget(pb, Head(operations)) THEN pb
                    ELSE apply_operation(pb, Head(operations)).pb,
                    Tail(operations))

\* C11: apply_delta(batch) leaves the playbook in the state reached by applying
\* the operations of the batch one at a time in list order: an UPDATE, TAG or
\* REMOVE with an unknown or missing tip_id changes nothing, and every other
\* operation of the batch, before and after it, takes effect.
C11_ApplyDeltaAppliesEveryOperation ==
    [][ (given.call = "apply_delta" /\ last'.op = "apply_delta") =>
           /\ tips' = OneAtATime(PB, given.operations).tips
           /\ sections' = OneAtATime(PB, given.operations).sections
           /\ next_id' = OneAtATime(PB, given.operations).next_id ]_vars

\* C12: deduplicate(deduplicator, tip_ids) never removes a tip whose id is not
\* in tip_ids, whatever the playbook and whatever the similarity test finds:
\* the tips outside tip_ids and next_id are as they were, and no tip appears.
C12_DeduplicateRemovesOnlyGivenIds ==
    (given.call = "deduplicate" /\ last.op = "deduplicate") =>
       /\ \A id \in DOMAIN given.pb.tips \ given.tip_ids :
             id \in DOMAIN tips /\ tips[id] = given.pb.tips[id]
       /\ DOMAIN tips \subseteq DOMAIN given.pb.tips
       /\ next_id = given.pb.next_id

\* A given tip was removed as a duplicate of a tip that was not given, and that
\* one is still there
C12_Witness ==
    /\ given.call = "deduplicate"
    /\ last.op = "deduplicate"
    /\ \E id \in given.tip_ids \cap DOMAIN given.pb.tips : id \notin DOMAIN tips
    /\ DOMAIN tips \ given.tip_ids # {}

\* Whether deduplicate, called on the playbook on record with the ids and the
\* similarity outcome on record, judges the tip a duplicate of a tip that was
\* not given
DuplicatesExisting(id) ==
    \E e \in (DOMAIN given.pb.tips) \ given.tip_ids :
       <<given.pb.tips[id].content, given.pb.tips[e].content>> \in given.similar

\* C39: deduplicate compares the given new tips only against the tips outside
\* tip_ids, never against each other: the tips removed are the given ones that
\* are similar to a tip outside tip_ids; when every tip of the playbook is in
\* tip_ids, or when no given id is in the playbook, nothing is removed, and two
\* new tips that duplicate each other but no existing tip are both kept.
C39_NewTipsComparedWithExistingOnly ==
    (given.call = "deduplicate" /\ last.op = "deduplicate") =>
       LET before == given.pb.tips
           new == given.tip_ids \cap DOMAIN before
           existing == (DOMAIN before) \ new
       IN  /\ DOMAIN tips = (DOMAIN before) \ {n \in new : DuplicatesExisting(n)}
           /\ (existing = {} \/ new = {}) =>
                 /\ tips = before
                 /\ sections = given.pb.sections
           /\ \A n1 \in new, n2 \in new :
                 (/\ n1 # n2
                  /\ <<before[n1].content, before[n2].content>> \in given.similar
                  /\ ~DuplicatesExisting(n1)
                  /\ ~DuplicatesExisting(n2)) =>
                    /\ n1 \in DOMAIN tips /\ tips[n1] = before[n1]
                    /\ n2 \in DOMAIN tips /\ tips[n2] = before[n2]

\* deduplicate was given the two tips of a playbook, which have the same
\* content and are similar to each other, and both are still there
C39_Witness ==
    /\ given.call = "deduplicate"
    /\ last.op = "deduplicate"
    /\ Cardinality(DOMAIN given.pb.tips) = 2
    /\ DOMAIN given.pb.tips \subseteq given.tip_ids
    /\ \A n1 \in DOMAIN given.pb.tips, n2 \in DOMAIN given.pb.tips :
          <<given.pb.tips[n1].content, given.pb.tips[n2].content>> \in given.similar
    /\ tips = given.pb.tips

\* C21: for every playbook p reachable through the CRUD operations and
\* apply_delta, Playbook.loads(p.dumps()) has the same tips (all fields), the
\* same sections with the same id order, and the same next_id as p.
C21_LoadsDumpsRoundTrip ==
    [][ (last'.op = "loads") =>
           (/\ last'.exc = "none"
            /\ tips' = tips
            /\ sections' = sections
            /\ next_id' = next_id) ]_vars

\* loads(dumps()) of a playbook with two tips in one section, one of them
\* tagged, and a counter that has moved
C21_Witness ==
    /\ last.op = "loads"
    /\ next_id >= 1
    /\ \E s \in DOMAIN sections : Len(sections[s]) = 2
    /\ Cardinality(DOMAIN tips) = 2
    /\ \E id \in DOMAIN tips : tips[id].scenario_tags # <<>>

\* C22: remove_tip of the only remaining tip of a section deletes that
\* section's key, so no section ever maps to an empty list; remove_tip of a tip
\* that is not the section's only one leaves the section present with the
\* remaining ids in their original order.
C22_RemoveTipLeavesNoEmptySection ==
    [][ /\ \A s \in DOMAIN sections' : sections'[s] # <<>>
        /\ (last'.op = "remove_tip" /\ last'.hit) =>
              \A tip_id \in (DOMAIN tips) \ (DOMAIN tips') :
                 LET s == tips[tip_id].section
                     remaining == SelectSeq(sections[s], LAMBDA id : id # tip_id)
                 IN  /\ s \in DOMAIN sections
                     /\ IF remaining = <<>>
                        THEN s \notin DOMAIN sections'
                        ELSE s \in DOMAIN sections' /\ sections'[s] = remaining ]_vars

\* remove_tip has removed one of two tips of a section, and the other tip is
\* what the section lists
C22_Witness ==
    /\ last.op = "remove_tip"
    /\ last.hit
    /\ Cardinality(DOMAIN tips) = 1
    /\ DOMAIN sections = {SecApi}
    /\ \E id \in DOMAIN tips : tips[id].section = SecApi /\ sections[SecApi] = <<id>>

\* C23: next_id never decreases, grows by exactly one on each id generation
\* and is left alone by remove_tip and deduplicate; a generated id carries the
\* new counter value, which is above every value generated before, so no two
\* generated ids carry the same counter value, also after deletions.
C23_CounterOnlyGrows ==
    [][ /\ next_id' >= next_id
        /\ (last'.op \in {"remove_tip", "deduplicate"}) => (next_id' = next_id)
        /\ (last'.op = "add_tip") =>
              /\ next_id' \in {next_id, next_id + 1}
              /\ last'.hit => (next_id' = next_id + 1)
              /\ (next_id' = next_id) =>
                    \E tip_id \in CallerIds :
                       tip_id \notin DOMAIN tips /\ tip_id \in DOMAIN tips'
              /\ (next_id' = next_id + 1 /\ last'.exc = "none") =>
                    \E section \in Sections :
                       LET generated == lower(split_0(section)) \o <<"-">>
                                           \o format_05d(next_id')
                       IN  /\ generated \in DOMAIN tips'
                           /\ tips'[generated].section = section ]_vars

\* An id was generated after a removal: the playbook holds one tip, under a
\* generated id that carries the counter value 2
C23_Witness ==
    /\ last.op = "add_tip"
    /\ next_id = 2
    /\ DOMAIN tips = {<<"a", "-", "0", "0", "0", "0", "2">>}

\* No tag is in the list twice
NoTagTwice(scenario_tags) ==
    \A i, j \in DOMAIN scenario_tags :
       (scenario_tags[i] = scenario_tags[j]) => (i = j)

\* The tags a tip had are the first of the tags it has, in the same order
TagsKeepOrder ==
    (last'.op \in {"update_tip", "tag_tip"}) =>
       \A id \in DOMAIN tips \cap DOMAIN tips' :
          LET before == tips[id].scenario_tags
              after == tips'[id].scenario_tags
          IN  Len(after) >= Len(before) /\ SubSeq(after, 1, Len(before)) = before

\* C30: in every reachable playbook state, the scenario_tags of every tip
\* contain no tag twice, whichever of add_tip, update_tip, tag_tip and the
\* ADD/UPDATE/TAG delta operations supplied the tags, and tags keep their
\* insertion order.
C30_NoTagTwice ==
    [][ /\ \A id \in DOMAIN tips' : NoTagTwice(tips'[id].scenario_tags)
        /\ TagsKeepOrder ]_vars

\* The place of the first occurrence of a tag in a list that holds it
FirstAt(tag, tags) == CHOOSE i \in DOMAIN tags : tags[i] = tag /\ \A j \in 1..(i - 1) : tags[j] # tag

\* after is before followed by the tags of given that before does not hold,
\* each once, in the order of given
TagsAdded(before, given_tags, after) ==
    /\ Len(after) >= Len(before)
    /\ SubSeq(after, 1, Len(before)) = before
    /\ Range(after) = Range(before) \cup Range(given_tags)
    /\ \A i, j \in (Len(before) + 1)..Len(after) :
          /\ after[i] \notin Range(before)
          /\ (i < j) => FirstAt(after[i], given_tags) < FirstAt(after[j], given_tags)

\* C31: update_tip on an existing id replaces content exactly when content is
\* given, adds each given tag that the tip does not already have (in the given
\* order, existing tags kept), and changes neither the tip's id or section,
\* nor any other tip, nor the section index, nor next_id.
C31_UpdateTipChangesContentAndTagsOnly ==
    (given.call = "update_tip" /\ last.op = "update_tip" /\ last.hit) =>
       LET before == given.pb.tips[given.tip_id]
           after == tips[given.tip_id]
       IN  /\ last.exc = "none"
           /\ DOMAIN tips = DOMAIN given.pb.tips
           /\ \A id \in DOMAIN tips \ {given.tip_id} : tips[id] = given.pb.tips[id]
           /\ sections = given.pb.sections
           /\ next_id = given.pb.next_id
           /\ after.id = before.id
           /\ after.section = before.section
           /\ after.content = IF given.content # None THEN given.content
                              ELSE before.content
           /\ IF given.scenario_tags = None
              THEN after.scenario_tags = before.scenario_tags
              ELSE TagsAdded(before.scenario_tags, given.scenario_tags,
                             after.scenario_tags)

\* update_tip has replaced a content by the empty text and added one of the
\* two tags given to the tag the tip had, next to a second tip
C31_Witness ==
    /\ given.call = "update_tip"
    /\ last.op = "update_tip"
    /\ last.hit
    /\ given.content = <<>>
    /\ given.scenario_tags = <<"q", "p">>
    /\ Cardinality(DOMAIN tips) = 2
    /\ tips[given.tip_id].content = <<>>
    /\ tips[given.tip_id].scenario_tags = <<"p", "q">>

\* C32: on a playbook created empty, the k-th id generated by add_tip is the
\* lowercased first word of the section, a hyphen, and k as a 5-digit
\* zero-padded number, whatever tips were removed in between; the first
\* generated id for section "API Usage" is "api-00001".
C32_KthGeneratedIdCarriesK ==
    [][ (given.call = "add_tip" /\ given'.generated = given.generated + 1) =>
           /\ given'.id = lower(split_0(given'.section)) \o <<"-">>
                             \o format_05d(given'.generated)
           /\ given'.id \in DOMAIN tips'
           /\ (given'.generated = 1 /\ given'.section = SecApiUsage) =>
                 (given'.id = <<"a", "p", "i", "-", "0", "0", "0", "0", "1">>) ]_vars

\* The places of the section lists that hold the id, as <<section, index>>
ListedAt(id) ==
    {p \in UNION {{<<s, i>> : i \in DOMAIN sections[s]} : s \in DOMAIN sections} :
        sections[p[1]][p[2]] = id}

\* The places of all section lists
ListPlaces ==
    UNION {{<<s, i>> : i \in DOMAIN sections[s]} : s \in DOMAIN sections}

\* C38: in every reachable playbook state each tip id of the tip map appears
\* exactly once over all section lists, and it appears in the list of the
\* section recorded on the tip; hence the number of tips equals the total
\* length of the section lists.
C38_EachTipListedOnceInItsSection ==
    /\ \A id \in DOMAIN tips :
          /\ Cardinality(ListedAt(id)) = 1
          /\ \E p \in ListedAt(id) : p[1] = tips[id].section
    /\ Cardinality(DOMAIN tips) = Cardinality(ListPlaces)

----------------------------------------------------------------------------
(* Claims about the runs *)

\* C13: in an offline or online run, a deduplication of the buffer never
\* removes a tip that was in the playbook before the samples of the current
\* buffer window were curated, that is, a tip that no ADD operation has stored
\* since the buffer was last empty, even when a curator operation of the
\* window referred to it by id.
C13_FlushKeepsExistingTips ==
    [][ (run_pc \in {"deduplicate", "final_deduplicate"}) =>
           (\A id \in DOMAIN tips \ added_since_flush :
               id \in DOMAIN tips' /\ tips'[id] = tips[id]) ]_vars

\* Playbook.deduplicate is called on the buffer in this step
Flushed ==
    /\ last'.op = "deduplicate"
    /\ \E similar \in SimilarityOutcomes :
          LET r == deduplicate(PB, Range(bullet_ids_buffer), similar)
          IN  tips' = r.pb.tips /\ sections' = r.pb.sections /\ next_id' = r.pb.next_id

\* C24: in an offline or online run with a deduplicator and dedup_frequency =
\* N > 0, Playbook.deduplicate is called right after the N-th, 2N-th, ...
\* processed sample with the ids buffered since the previous flush, the buffer
\* is empty right after each flush, and ids still buffered when the samples end
\* are flushed exactly once at the end of the run.
C24_FlushEveryNSamples ==
    [][ (deduplicator /\ dedup_frequency > 0) =>
          /\ (run_pc = "train" /\ run_pc' # "raised") =>
                /\ sample_counter' = sample_counter + 1
                /\ (run_pc' = "deduplicate") <=> (sample_counter' % dedup_frequency = 0)
                /\ Len(bullet_ids_buffer') >= Len(bullet_ids_buffer)
                /\ SubSeq(bullet_ids_buffer', 1, Len(bullet_ids_buffer)) = bullet_ids_buffer
          /\ (run_pc = "deduplicate") =>
                /\ Flushed
                /\ bullet_ids_buffer' = <<>>
                /\ run_pc' \in {"train", "final_deduplicate"}
                /\ sample_counter' = sample_counter
          /\ (run_pc = "final_deduplicate") =>
                /\ IF bullet_ids_buffer # <<>> THEN Flushed ELSE UNCHANGED pbvars
                /\ run_pc' \in {"test", "returned"}
          /\ (run_pc \in {"test", "returned"}) => UNCHANGED pbvars ]_vars

\* The fourth sample of an offline run with dedup_frequency 2 has been
\* processed and the ids buffered since the flush after the second are about to
\* be flushed
C24_Witness ==
    /\ deduplicator
    /\ dedup_frequency = 2
    /\ sample_counter = 4
    /\ run_pc = "deduplicate"
    /\ bullet_ids_buffer # <<>>

\* C25: in the offline adapter with a deduplicator and dedup_frequency = 0,
\* deduplication runs once per epoch: the buffer is flushed into
\* Playbook.deduplicate at the end of each of the epochs.
C25_FlushAtTheEndOfEachEpoch ==
    [][ (/\ mode = "offline"
         /\ deduplicator
         /\ dedup_frequency = 0
         /\ run_pc = "train"
         /\ run_pc' # "raised"
         /\ step_idx = train_samples
         /\ bullet_ids_buffer' # <<>>) =>
           (run_pc' \in {"deduplicate", "final_deduplicate"}) ]_vars

\* C29: every tip a curator ADD operation has added during a buffer window,
\* also under an id the playbook generated, has its id in the buffer at the
\* next flush.
C29_AddedTipsAreBuffered ==
    (deduplicator /\ run_pc \in {"deduplicate", "final_deduplicate"}) =>
       (added_since_flush \subseteq Range(bullet_ids_buffer))

\* C34: in the online adapter, dedup_frequency = 0 means no deduplication:
\* Playbook.deduplicate is never called during or at the end of run, even when
\* a deduplicator is configured.
C34_OnlineFrequencyZeroNeverDeduplicates ==
    (mode = "online" /\ dedup_frequency = 0 /\ run_pc # "idle") =>
       (last.op # "deduplicate")

\* A _process_sample or _evaluation_sample call is under way
TaskUnderWay ==
    pc \in {"initialize_task", "generate", "execute_code", "is_task_completed",
            "evaluate_task", "close_task", "reflect", "curate"}

\* The calls of one task: one initialize_task call, which comes first, and no
\* Generator or session-opening call once close_task, reflect or curate was
\* called
OneSessionPerCall ==
    /\ log # <<>> => log[1][1] = "initialize_task"
    /\ \A i \in DOMAIN log : log[i][1] = "initialize_task" => i = 1
    /\ \A i \in DOMAIN log, j \in DOMAIN log :
          (i < j /\ log[i][1] \in {"close_task", "reflect", "curate"}) =>
             log[j][1] \notin {"initialize_task", "generate"}

\* While a task is under way the run is at its _process_sample or
\* _evaluation_sample call, and no periodic deduplication is owed: when the
\* count of processed samples is a multiple of the frequency the buffer has
\* been flushed
NoFlushOwed ==
    TaskUnderWay =>
       /\ run_pc \in {"train", "test"}
       /\ (deduplicator /\ dedup_frequency > 0
             /\ sample_counter % dedup_frequency = 0) => bullet_ids_buffer = <<>>

\* A task begins: the session of the task before it was closed, for a training
\* task its reflection and curation (with the delta application) were carried
\* out, and from there to the first generate call the playbook is left alone
NextTaskAfterThePrevious ==
    /\ (pc = "idle" /\ pc' = "initialize_task" /\ log # <<>>) =>
          /\ log[1] = <<"initialize_task", task_id, "ok">>
          /\ \E i \in DOMAIN log : log[i] = <<"close_task", task_id, "ok">>
          /\ phase = "train" =>
                /\ log[Len(log)] = <<"curate", None, "ok">>
                /\ log[Len(log) - 1] = <<"reflect", None, "ok">>
                /\ last.op \in {"apply_delta", "deduplicate"}
    /\ (pc \in {"idle", "initialize_task"} /\ pc' \in {"initialize_task", "generate"}) =>
          UNCHANGED <<tips, sections, next_id>>

\* C36: in every adapter run (offline, online, baseline) at most one task
\* session is open at any time: close_task of a task precedes initialize_task
\* of the next task, and the reflection, curation, delta application and any
\* dedup flush of a task are finished before the next task's first Generator
\* call, which reads the playbook they produced.
C36_OneTaskAtATime ==
    /\ [](OneSessionPerCall /\ NoFlushOwed)
    /\ [][NextTaskAfterThePrevious]_vars

\* The second task of an online run is at its first generate call; the first
\* task added a tip, and the periodic deduplication that followed it is the
\* last thing done to the playbook
C36_Witness ==
    /\ mode = "online"
    /\ pc = "generate"
    /\ step_idx = 2
    /\ log = << <<"initialize_task", sample_task_id(2), "ok">> >>
    /\ run_log = << <<"_process_sample", 1, 1>> >>
    /\ last.op = "deduplicate"
    /\ DOMAIN tips # {}
    /\ bullet_ids_buffer = <<>>

\* The _process_sample calls of a whole training phase, in order
TrainingCalls ==
    [k \in 1..(epochs * train_samples) |->
        <<"_process_sample", ((k - 1) \div train_samples) + 1,
          ((k - 1) % train_samples) + 1>>]

\* The first test sample has been started, or the run has returned
TrainingOver ==
    \/ run_pc \in {"test", "returned"}
    \/ \E k \in DOMAIN run_log : run_log[k][1] = "_evaluation_sample"

\* C15: AppWorldOfflineAdapter.run processes every training sample of every
\* epoch with the learning branch, epochs x |train| calls in order, before the
\* first test sample; from the start of the first test sample until run
\* returns the playbook is not modified.
C15_TrainThenFrozenTest ==
    /\ []((mode = "offline" /\ TrainingOver) =>
             /\ Len(run_log) >= Len(TrainingCalls)
             /\ SubSeq(run_log, 1, Len(TrainingCalls)) = TrainingCalls
             /\ \A k \in 1..(Len(run_log) - Len(TrainingCalls)) :
                   run_log[Len(TrainingCalls) + k] = <<"_evaluation_sample", 0, k>>)
    /\ []((mode = "offline" /\ ~TrainingOver) =>
             \A k \in DOMAIN run_log : run_log[k][1] = "_process_sample")
    /\ [][ (mode = "offline" /\ run_pc = "test") =>
              (tips' = tips /\ sections' = sections /\ next_id' = next_id) ]_vars

\* An offline run of two epochs over two training samples and two test samples
\* has returned, its playbook holding what the training left
C15_Witness ==
    /\ mode = "offline"
    /\ run_pc = "returned"
    /\ epochs = 2
    /\ train_samples = 2
    /\ test_samples = 2
    /\ Len(run_log) = 6
    /\ Cardinality(DOMAIN tips) = 2

----------------------------------------------------------------------------
(* Claims about the interaction loop.  The log holds, in call order, every   *)
(* call made on the generator and on the environment, with its outcome.      *)

LoopCalls == {"generate", "execute_code", "is_task_completed"}

Entries(call) == SelectSeq(log, LAMBDA e : e[1] = call)

CallCount(call) == Len(Entries(call))

OutcomeCount(call, outcome) ==
    Len(SelectSeq(log, LAMBDA e : e[1] = call /\ e[3] = outcome))

\* The number of the first is_task_completed call that returned True; 0 when
\* none has
FirstTrue ==
    LET checks == Entries("is_task_completed")
        trues == { k \in DOMAIN checks : checks[k][3] = "True" }
    IN  IF trues = {} THEN 0
        ELSE CHOOSE k \in trues : \A j \in trues : k <= j

\* No call of the loop has raised and the generator has always returned output
CleanLoop ==
    \A i \in DOMAIN log :
       log[i][1] \in LoopCalls => log[i][3] \notin {"raise", "None"}

\* The loop has been left and the trajectory has its status
LoopOver == trajectory.execution_status # "unset"

\* The calls made after the i-th one
CallsAfter(i) == [j \in 1..(Len(log) - i) |-> log[i + j][1]]

\* The calls the flow makes after the loop
PostLoopCalls ==
    IF phase = "train"
    THEN <<"evaluate_task", "close_task", "reflect", "curate">>
    ELSE <<"evaluate_task", "close_task">>

\* C3: when is_task_completed first returns True on its k-th call, no call
\* having raised and the generator having always returned output, the loop stops
\* after round k: k is at most max_interaction_steps, the trajectory has exactly
\* k steps, the generator has been called exactly k times and is never called
\* again, and the status is "completed".
C3_CompletedAtRoundK ==
    LET k == FirstTrue IN
    (k > 0 /\ CleanLoop) =>
       /\ k <= max_interaction_steps
       /\ Len(trajectory.steps) = k
       /\ CallCount("generate") = k
       /\ CallCount("is_task_completed") = k
       /\ execution_status = COMPLETED
       /\ trajectory.execution_status = COMPLETED

\* A task completed in round 2 of 3 and its result returned
C3_Witness ==
    /\ pc = "returned"
    /\ max_interaction_steps = 3
    /\ FirstTrue = 2
    /\ CleanLoop
    /\ result[1].execution_status = COMPLETED

\* C4: when is_task_completed never returns True, no call raises and the
\* generator always returns output, the loop runs exactly max_interaction_steps
\* rounds: the trajectory has that many steps and the status is
\* "max_steps_reached".
C4_MaxStepsReached ==
    (LoopOver /\ CleanLoop /\ FirstTrue = 0) =>
       /\ Len(trajectory.steps) = max_interaction_steps
       /\ CallCount("generate") = max_interaction_steps
       /\ CallCount("is_task_completed") = max_interaction_steps
       /\ execution_status = MAX_STEPS_REACHED
       /\ trajectory.execution_status = MAX_STEPS_REACHED

\* Three rounds of three were run and none completed the task
C4_Witness ==
    /\ pc = "returned"
    /\ max_interaction_steps = 3
    /\ CleanLoop
    /\ FirstTrue = 0
    /\ Len(trajectory.steps) = 3
    /\ result[1].execution_status = MAX_STEPS_REACHED

\* C5: when the generator returns no output in a round, the loop stops with the
\* status "crashed": in that round execute_code and is_task_completed are not
\* called and no step is appended, and the generator is not called again.
C5_NoOutputCrashes ==
    \A i \in DOMAIN log :
       (log[i][1] = "generate" /\ log[i][3] = "None") =>
          /\ execution_status = CRASHED
          /\ \A j \in DOMAIN log : j > i => log[j][1] \notin LoopCalls
          /\ CallCount("execute_code") = CallCount("generate") - 1
          /\ CallCount("is_task_completed") = CallCount("generate") - 1
          /\ Len(trajectory.steps) = CallCount("generate") - 1

\* The generator returned no output in round 2 and the result was returned
C5_Witness ==
    /\ pc = "returned"
    /\ CallCount("generate") = 2
    /\ OutcomeCount("generate", "None") = 1
    /\ Len(trajectory.steps) = 1
    /\ result[1].execution_status = CRASHED

\* C6: when generation, execution or the completion query raises in a round,
\* the status is "crashed", no further round is run, and the flow goes on with
\* the evaluation, then the close and, in training, the reflection and the
\* curation.
C6_ExceptionCrashesAndFlowContinues ==
    \A i \in DOMAIN log :
       (log[i][1] \in LoopCalls /\ log[i][3] = "raise") =>
          LET after == CallsAfter(i) IN
          /\ execution_status = CRASHED
          /\ trajectory.execution_status = CRASHED
          /\ Len(after) <= Len(PostLoopCalls)
          /\ after = SubSeq(PostLoopCalls, 1, Len(after))
          /\ pc = "returned" => after = PostLoopCalls
          /\ pc = "raised" => Len(after) >= 2
          /\ pc \notin {"returned", "raised"} => pc = PostLoopCalls[Len(after) + 1]

\* The completion query raised in round 3 of a training task, and the flow went
\* through evaluation, close, reflection and curation
C6_Witness ==
    /\ pc = "returned"
    /\ phase = "train"
    /\ OutcomeCount("is_task_completed", "raise") = 1
    /\ CallCount("is_task_completed") = 3
    /\ CallCount("curate") = 1
    /\ result[1].execution_status = CRASHED

\* C7: once the loop is left the trajectory has exactly one of the three
\* statuses; it holds one step per round in which generation and execution both
\* succeeded, the i-th step being that of round i, and never more than
\* max_interaction_steps; with max_interaction_steps = 0 it holds no step and
\* the status is "max_steps_reached".
C7_OneStatusOneStepPerRound ==
    LoopOver =>
       /\ trajectory.execution_status \in ExecutionStatus
       /\ trajectory.execution_status = execution_status
       /\ Len(trajectory.steps) = OutcomeCount("execute_code", "ok")
       /\ \A i \in DOMAIN trajectory.steps :
             trajectory.steps[i].generator_output = GeneratorOutput(i)
       /\ Len(trajectory.steps) <= max_interaction_steps
       /\ max_interaction_steps = 0 =>
             /\ trajectory.steps = <<>>
             /\ trajectory.execution_status = MAX_STEPS_REACHED

\* A task with max_interaction_steps = 0 was carried through
C7_Witness ==
    /\ pc = "returned"
    /\ max_interaction_steps = 0
    /\ trajectory.steps = <<>>
    /\ result[1].execution_status = MAX_STEPS_REACHED
    /\ result[1].num_steps = 0

\* C14: the evaluation branch (_evaluation_sample, in the offline evaluation
\* phase and in the baseline run) never calls the reflector or the curator and
\* leaves tips, sections and next_id of the playbook as they were, for every
\* outcome of the loop.
C14_EvaluationLeavesPlaybook ==
    /\ [](phase \in {"test", "baseline"} =>
             CallCount("reflect") = 0 /\ CallCount("curate") = 0)
    /\ [][ (phase \in {"test", "baseline"}) =>
              (tips' = tips /\ sections' = sections /\ next_id' = next_id) ]_vars

\* A baseline sample whose loop crashed in round 2 was carried through on a
\* playbook that holds a tip
C14_Witness ==
    /\ phase = "baseline"
    /\ pc = "returned"
    /\ DOMAIN tips # {}
    /\ Len(trajectory.steps) = 1
    /\ result[1].execution_status = CRASHED

\* The last call made is the given one, and it returned
LastCallOk(call) == log # <<>> /\ log[Len(log)][1] = call /\ log[Len(log)][3] = "ok"

\* C16: for a training sample the adapter calls, after the loop, the
\* evaluation and the close, the reflector, then the curator, and then applies
\* the curator's delta to the playbook, exactly once each; it does so for every
\* execution status and every test result, whenever the calls return.
C16_ReflectCurateApplyOnce ==
    phase = "train" =>
       /\ LastCallOk("close_task") => pc = "reflect"
       /\ LastCallOk("reflect") => pc = "curate"
       /\ LastCallOk("curate") =>
             /\ last.op = "apply_delta"
             /\ pc = (IF last.exc = "none" THEN "returned" ELSE "raised")
       /\ CallCount("reflect") <= 1 /\ CallCount("curate") <= 1
       /\ last.op = "apply_delta" => LastCallOk("curate")
       /\ pc = "returned" =>
             /\ LastCallOk("curate")
             /\ Len(log) >= 4
             /\ log[Len(log) - 1] = <<"reflect", None, "ok">>
             /\ log[Len(log) - 2] = <<"close_task", task_id, "ok">>
             /\ log[Len(log) - 3] = <<"evaluate_task", task_id, "ok">>

\* A training task that ran out of rounds and failed a unit test was reflected
\* on and curated, and the delta put a tip into the playbook
C16_Witness ==
    /\ phase = "train"
    /\ pc = "returned"
    /\ result[1].execution_status = MAX_STEPS_REACHED
    /\ result[1].tgc = 0
    /\ last.op = "apply_delta"
    /\ IdA1 \in DOMAIN tips

Opened ==
    \E i \in DOMAIN log : log[i] = <<"initialize_task", task_id, "ok">>

\* close_task has been called for the task
Closed ==
    \E i \in DOMAIN log : log[i][1] = "close_task" /\ log[i][2] = task_id

\* C8: an initialize_task call that returned is eventually followed by a
\* close_task call for the same task, whatever status the loop ended with and
\* whatever the evaluation returned, and the close comes after the post-loop
\* evaluate_task call.
C8_InitializedTaskIsClosed ==
    /\ Opened ~> Closed
    /\ [](\A i \in DOMAIN log :
             log[i][1] = "close_task" =>
                /\ log[i][2] = task_id
                /\ \E j \in 1..(i - 1) : log[j] = <<"evaluate_task", task_id, "ok">>)

\* A crashed task whose evaluation failed three times has been closed
C8_Witness ==
    /\ Closed
    /\ execution_status = CRASHED
    /\ metrics[1].unit_tests_total = 0

\* C35: a task whose evaluation call failed on all 3 attempts yields the
\* sentinel report, from which passed and total are both parsed as 0; the task
\* then gets tgc = 1.0 and the pass count of its scenario is incremented,
\* exactly as for a task that passed all its unit tests.
C35_FailedEvaluationCountsAsPassed ==
    [][ (pc = "evaluate_task" /\ metrics' # <<>>
           /\ EvaluationFailedText = metrics'[1].unit_test_output) =>
           LET scenario_id == split_underscore_0(task_id)
               count == IF scenario_id \in DOMAIN sgc_cnt THEN sgc_cnt[scenario_id] ELSE 0
           IN  /\ metrics'[1].unit_tests_passed = 0
               /\ metrics'[1].unit_tests_total = 0
               /\ metrics'[1].tgc = 1
               /\ scenario_id \in DOMAIN sgc_cnt'
               /\ sgc_cnt'[scenario_id] = count + 1 ]_vars

\* The evaluation of a task failed three times and the task is counted as
\* passed for its scenario
C35_Witness ==
    /\ pc = "close_task"
    /\ metrics # <<>>
    /\ EvaluationFailedText = metrics[1].unit_test_output
    /\ metrics[1].tgc = 1
    /\ sgc_cnt[split_underscore_0(task_id)] = 1

\* C37: in the AdapterStepResult of a task, generator_output is the Generator
\* output that produced the last Step of the trajectory, and it is None exactly
\* when the trajectory has no Step, whatever way the loop was left, a crash
\* raised by the completion query after the Step was appended included.
C37_ResultHoldsOutputOfLastStep ==
    (pc = "returned" /\ result # <<>>) =>
       /\ (result[1].generator_output = NoOutput) <=> (trajectory.steps = <<>>)
       /\ trajectory.steps # <<>> =>
             result[1].generator_output =
                trajectory.steps[Len(trajectory.steps)].generator_output

----------------------------------------------------------------------------
(* Claims about the roles *)

\* The response of a completion call failed to parse: one of the two parsers
\* raised
FailedToParse(c) == c.responded /\ c.exc \in {"ValueError", "UnboundLocalError"}

\* The response parsed and the output was built
ParsedOk(c) == c.responded /\ c.exc = "none"

\* The completion call itself raised openai.InternalServerError
ServerError(c) == ~c.responded /\ c.exc = "InternalServerError"

SameRound(i, j) == completions[i].round_idx = completions[j].round_idx

CallsInRound(r) ==
    Cardinality({i \in 1..Len(completions) : completions[i].round_idx = r})

\* At most max_retries completion calls per call of generate and curate and
\* per refinement round of reflect, and none after a response that parsed
AtMostMaxRetriesAndNoneAfterParse ==
    /\ \A r \in 0..MaxRounds : CallsInRound(r) <= max_retries
    /\ \A i, j \in 1..Len(completions) :
          (i < j /\ SameRound(i, j)) => ~ParsedOk(completions[i])

\* C18 as stated: each role call makes at most max_retries completion calls
\* (the Reflector at most max_retries per refinement round), makes a further
\* call only after the previous response failed to parse, and makes no call
\* after a response has parsed.
C18_FurtherCallOnlyAfterParseFailure ==
    /\ AtMostMaxRetriesAndNoneAfterParse
    /\ \A i \in 2..Len(completions) :
          SameRound(i - 1, i) => FailedToParse(completions[i - 1])

\* C18, amended: each role call makes at most max_retries completion calls
\* (the Reflector at most max_retries per refinement round) and none after a
\* response has parsed; it makes a further call only after the previous
\* response failed to parse or, in generate, after the previous completion
\* call raised openai.InternalServerError.
C18_FurtherCallOnlyAfterFailure ==
    /\ AtMostMaxRetriesAndNoneAfterParse
    /\ \A i \in 2..Len(completions) :
          SameRound(i - 1, i) =>
             \/ FailedToParse(completions[i - 1])
             \/ role = "generator" /\ ServerError(completions[i - 1])

\* generate has made max_retries calls: the first raised InternalServerError,
\* the second was made with the corrective prompt, and its response parsed
C18_Witness ==
    /\ role = "generator"
    /\ role_pc = "returned"
    /\ max_retries = MaxRetries
    /\ Len(completions) = max_retries
    /\ ServerError(completions[1])
    /\ completions[2].prompt = CORRECTIVE_PROMPT
    /\ ParsedOk(completions[2])

\* Every response the call received failed to parse
AllFailedToParse ==
    \A i \in 1..Len(completions) : FailedToParse(completions[i])

\* The method has returned or raised
RoleOver == role_pc \in {"returned", "raised"}

\* curate raises when all max_retries responses failed to parse, and reflect
\* raises when no response of any round parsed
CurateAndReflectRaise ==
    RoleOver =>
       /\ (role = "curator" /\ Len(completions) = max_retries /\ AllFailedToParse)
             => returned[1].returns = "raise"
       /\ (role = "reflector" /\ \A i \in 1..Len(completions) : ~ParsedOk(completions[i]))
             => returned[1].returns = "raise"

\* C19: when all max_retries responses fail to parse, generate returns None
\* and curate raises; reflect raises if no refinement round ever produced
\* usable output.
C19_ExhaustedRetriesFail ==
    /\ CurateAndReflectRaise
    /\ (RoleOver /\ role = "generator" /\ Len(completions) = max_retries
           /\ AllFailedToParse)
          => returned[1] = ReturnsNone

\* A parsed output with a bullet tag or with a key insight that is not empty
NonEmptyOutput(output) == output.bullet_tags # <<>> \/ output.key_insight # <<>>

\* C20: reflect returns the output of the first refinement round whose parsed
\* output has a non-empty bullet_tags or a non-empty key_insight and makes no
\* completion call after it; a round whose parsed output has neither is
\* followed by the next round while rounds remain.
C20_FirstNonEmptyRoundIsReturned ==
    role = "reflector" =>
       \A i \in 1..Len(completions) :
          LET c == completions[i] IN
          ParsedOk(c) =>
             IF NonEmptyOutput(c.output[1])
             THEN /\ i = Len(completions)
                  /\ role_pc = "returned"
                  /\ returned = << Returns(c.output[1]) >>
             ELSE IF i < Len(completions)
             THEN /\ completions[i + 1].round_idx = c.round_idx + 1
                  /\ completions[i + 1].attempt = 0
                  /\ completions[i + 1].prompt = BASE_PROMPT
             ELSE /\ round_idx = c.round_idx + 1
                  /\ RoleOver => round_idx >= max_refinement_rounds
                  /\ ~RoleOver => role_pc = "loop" /\ attempt = 0

\* The first round's response parsed to an output with neither, the second
\* round's to one with a bullet tag, which reflect returned
C20_Witness ==
    /\ role = "reflector"
    /\ role_pc = "returned"
    /\ Len(completions) = 2
    /\ ParsedOk(completions[1])
    /\ ~NonEmptyOutput(completions[1].output[1])
    /\ completions[2].round_idx = 1
    /\ ParsedOk(completions[2])
    /\ completions[2].output[1].bullet_tags = << [id |-> <<"a">>, tag |-> <<"d">>] >>
    /\ completions[2].output[1].key_insight = <<>>
    /\ returned = << Returns(completions[2].output[1]) >>

\* self.schema of the role called
RoleSchema ==
    CASE role = "generator" -> GeneratorSchema
      [] role = "reflector" -> ReflectorSchema
      [] OTHER -> CuratorSchema

\* The response text lacks a key of the schema: in Markdown form a section
\* headed by it, in JSON form a member of the object read
LacksKey(text, schema) ==
    IF text.starts = "#"
    THEN \E key \in DOMAIN schema :
            \A i \in DOMAIN text.sections : normalized_key(text.sections[i][1]) # key
    ELSE LET value == IF text.xml # NoMatch THEN text.xml ELSE text.json
         IN  /\ value \notin {NoMatch, Invalid}
             /\ value.type = "dict"
             /\ DOMAIN schema \ DOMAIN value.d # {}

\* C27: for each role, a response that lacks one of the role's required schema
\* keys is a parse failure, in JSON form as in Markdown form: it is never
\* returned as the role's output and a retry follows while attempts remain.
C27_MissingKeyIsParseFailure ==
    \A i \in 1..Len(completions) :
       LET c == completions[i] IN
       (c.responded /\ LacksKey(c.text[1], RoleSchema)) =>
          /\ FailedToParse(c)
          /\ c.output = <<>>
          /\ (c.attempt + 1 < max_retries) =>
                IF i < Len(completions)
                THEN /\ SameRound(i, i + 1)
                     /\ completions[i + 1].attempt = c.attempt + 1
                     /\ completions[i + 1].prompt = CORRECTIVE_PROMPT
                ELSE ~RoleOver

\* What the role called builds from a response text
BuiltBy(text) ==
    CASE role = "generator" -> generate_output(text, GeneratorSchema)
      [] role = "reflector" -> reflect_candidate(text, ReflectorSchema)
      [] OTHER -> curate_output(text, CuratorSchema)

\* The text, read as one that begins with "{" and as one that begins with
\* neither "{" nor a JSON fence
AsJson(text) == [text EXCEPT !.starts = "{"]
AsMarkdown(text) == [text EXCEPT !.starts = "#"]

\* C33: for all three roles, a response whose trimmed text begins with "{" or
\* with a JSON fence is parsed as JSON, and every other response is parsed as
\* Markdown: the format choice is the same function of the response for
\* Generator, Reflector and Curator.
C33_SameFormatChoiceForAllRoles ==
    \A i \in 1..Len(completions) :
       LET c == completions[i] IN
       c.responded =>
          LET text == c.text[1]
              expected == IF text.starts \in {"{", JsonFence}
                          THEN BuiltBy(AsJson(text))
                          ELSE BuiltBy(AsMarkdown(text))
          IN  c.output = expected.output /\ c.exc = expected.exc

----------------------------------------------------------------------------
(* Claims about the parsers *)

\* The schema key has a headed section in the text given
HasSection(key) ==
    \E i \in DOMAIN given.md_text.sections :
       normalized_key(given.md_text.sections[i][1]) = key

\* C26: the Markdown parser fails with an error exactly when some required
\* schema key has no headed section in the response; sections whose header is
\* not a schema key never cause a failure and never appear in the result.
C26_MarkdownFailsIffKeyMissing ==
    (given.call = "_markdown_parser" /\ returned # <<>>) =>
       /\ returned[1].exc \in {"none", "ValueError"}
       /\ (returned[1].exc = "ValueError") <=>
             (\E key \in DOMAIN given.schema : ~HasSection(key))
       /\ (returned[1].exc = "none") =>
             (DOMAIN returned[1].data.d \subseteq DOMAIN given.schema)

\* A text with the sections of the curator's schema and one more has been
\* parsed without error
C26_Witness ==
    /\ given.call = "_markdown_parser"
    /\ returned # <<>>
    /\ returned[1].exc = "none"
    /\ HasSection("secret_notes")
    /\ DOMAIN returned[1].data.d = {"reasoning", "operations"}

\* The requests that would yield a response
Answered == {i \in 1..EvaluateAttempts : given.attempts[i] # RequestFails}

\* C28: evaluate_task issues at most 3 requests, returns the first response it
\* obtains without further requests, and when all 3 attempts raise it returns
\* the sentinel failure payload instead of raising.
C28_EvaluateTaskRetriesThreeTimes ==
    (given.call = "evaluate_task" /\ returned # <<>>) =>
       /\ returned[1].requests <= 3
       /\ IF Answered # {}
          THEN \E first \in Answered :
                  /\ \A i \in Answered : first <= i
                  /\ returned[1].requests = first
                  /\ returned[1].result = given.attempts[first]
          ELSE /\ returned[1].requests = 3
               /\ returned[1].result = [output |-> EvaluationFailedText]

\* The first request raised and the second yielded a response, which
\* evaluate_task returned after two requests
C28_Witness ==
    /\ given.call = "evaluate_task"
    /\ returned # <<>>
    /\ given.attempts[1] = RequestFails
    /\ given.attempts[2] = [output |-> ReportText(1, 2)]
    /\ returned[1] = [result |-> [output |-> ReportText(1, 2)], requests |-> 2]

====
